---- MODULE Spec2Model ----
(***************************************************************************)
(* Models of servers of the Protohackers repository:                       *)
(*   - the job broker                  (src/src/server_09.rs), SpecBroker, *)
(*     and SpecWaiters for clients that hang up while they wait            *)
(*   - the LRCP transport + reverser   (src/src/server_07.rs), SpecLRCP,   *)
(*     SpecFrames for the lengths of its datagrams and SpecLocks for its   *)
(*     two locks                                                           *)
(*   - the speed daemon                (src/src/server_06.rs), SpecSpeed,  *)
(*     SpecTickets for clients that ask for no heartbeat and               *)
(*     SpecHeartbeat for clients that ask for heartbeats only              *)
(*   - the budget chat                 (src/src/server_03.rs), SpecChat    *)
(*   - the file store                  (src/src/server_10.rs), SpecFiles   *)
(*   - pest control                    (src/src/server_11.rs), SpecPest,   *)
(*     and SpecBytes for the bytes of one client                           *)
(*   - the insecure sockets layer      (src/src/server_08.rs), SpecCipher  *)
(*   - the line reader                 (src/src/utils.rs), SpecLines       *)
(* Every specification owns its variables and leaves the others unchanged. *)
(***************************************************************************)
EXTENDS Integers, Sequences, FiniteSets, TLC

(***************************************************************************)
(* Generic helpers for Rust Vec operations.                                *)
(***************************************************************************)

\* mutant of SeqRemove: the element stays in the vector
SeqRemove_KeepsJob(s, i) == s

\* Vec::remove(i): order-preserving removal of the i-th element (1-based).
SeqRemove(s, i) == [k \in 1..(Len(s) - 1) |-> IF k < i THEN s[k] ELSE s[k + 1]]

\* Vec::swap_remove(i): the last element takes the place of the i-th.
SeqSwapRemove(s, i) ==
  [k \in 1..(Len(s) - 1) |-> IF k = i THEN s[Len(s)] ELSE s[k]]

\* Iterator::position for "element has field id = v": 0 when there is none.
PositionOfId(s, v) ==
  IF \E k \in 1..Len(s) : s[k].id = v
  THEN CHOOSE k \in 1..Len(s) : s[k].id = v /\ \A m \in 1..(k - 1) : s[m].id # v
  ELSE 0

\* The elements of a sequence.
Range(s) == {s[k] : k \in 1..Len(s)}

\* Vec::contains
Contains(s, v) == \E k \in 1..Len(s) : s[k] = v

\* All orders in which a finite set can be iterated (HashMap iteration order
\* is unspecified: any order is possible).
Orders(S) ==
  {o \in [1..Cardinality(S) -> S] : \A x \in S : \E k \in DOMAIN o : o[k] = x}

(***************************************************************************)
(* Bounds of the broker model.                                             *)
(***************************************************************************)
MaxClients == 2
MaxJobs == 2

ClientIds == 1..MaxClients
QueueNames == {"q1", "q2"}
NoQueue == "none"
\* priorities a put may carry: -1 stands for a JSON number that is no u64
PutPriorities == {-1, 0, 1, 2}
JobIds == 1..(MaxJobs + 1)
\* the queue lists a get may carry
QueueLists == {<<"q1">>, <<"q2">>, <<"q1", "q2">>}

VARIABLES
  \* ---- job broker (server_09.rs) ----
  next_client_id,   \* Server.next_client_id
  next_job_id,      \* ServerState.next_job_id
  client_jobs,      \* ServerState.client_jobs : ClientId -> Vec<Job>
  queues,           \* ServerState.queues : String -> Vec<Job>
  waiting_clients,  \* ServerState.waiting_clients : ClientId -> Vec<String>
  waiting,          \* Server.waiting : the clients with a Notify event in the map
  signalled,        \* the clients whose own Notify event got notify_one()
  bpc,              \* position of each connection's handle_connection
  request,          \* the request a blocked client retries
  to_notify,        \* the Notify(..) messages a handler still has to process
  state_lock,       \* holder of Server.state's mutex across awaits (0: free)
  deleted,          \* history: <<id, holder>> of every job a delete removed
  hung_up,          \* history: the clients that closed their connection while
                    \* their handler was in wait_job
  \* ---- LRCP (server_07.rs) ----
  sessions,         \* ServerState.sessions : u32 -> Session
  ack_tasks,        \* Server.ack_tasks : u32 -> JoinHandle (a task id)
  tasks,            \* the live retransmit tasks : task id -> (sid, pos, data)
  next_task,        \* the id the next spawned task gets
  rx_stream,        \* history: per session, the payloads accepted, concatenated
  tx_stream,        \* history: per session, the bytes ever appended to data_to_send
  \* ---- LRCP with the lengths of the code (server_07.rs) ----
  frame_sessions,   \* ServerState.sessions, strings kept as runs of equal bytes
  frame_sent,       \* the last /data/ message handed to send_data
  \* ---- speed daemon (server_06.rs) ----
  writers,          \* Server.writers : client id -> the connection whose write
                    \* half the entry holds
  cameras,          \* ServerState.cameras
  dispatchers,      \* ServerState.dispatchers
  observations,     \* ServerState.observations
  have_heartbeats,  \* ServerState.have_heartbeats
  ticket_queue,     \* ServerState.ticket_queue
  ticket_sent,      \* ServerState.ticket_sent : plate -> Vec<day>
  spc,              \* position of each connection's handle_connection
  client_id,        \* the client id each connection got from get_client_id
  message_list,     \* the messages a handler still has to process
  heartbeats,       \* the connections with a running send_heartbeat task
  debug_build,      \* whether the build checks integer overflow: "on", "off",
                    \* or "unknown" while no run of the program depended on it
  generated,        \* history: the tickets generate_tickets built, in order
  declared,         \* history: the connections with a running handler whose
                    \* IAmCamera or IAmDispatcher was accepted
  \* ---- budget chat (server_03.rs) ----
  connections,      \* State.connections : name -> stream (a connection)
  cpc,              \* position of each connection's handle_connection
  username,         \* the username of each handler
  broken,           \* the connections to which a write fails
  poisoned,         \* whether a thread panicked while it held the Mutex
  \* ---- file store (server_10.rs) ----
  root,             \* ServerState.root
  store_pc,         \* position of each connection's handle_connection
  store_read,       \* the (path, length) of ServerMessage::Read
  answer,           \* the last response written to each connection: the verb
                    \* it answers, its first word, whether READY follows it,
                    \* its revision
  stored,           \* history: path -> the payloads of the PUTs that changed
                    \* the file, in their order
  \* ---- pest control (server_11.rs) ----
  site_states,      \* Server.site_states: site -> [targets, policies]
  site_lock,        \* site -> the connection that holds the Mutex of its
                    \* SiteState, or 0
  auth_connections, \* the keys of Server.auth_connections
  pest_pc,          \* position of each connection's handle_connection
  pest_visit,       \* the SiteVisit a connection processes, the actions
                    \* get_actions gave for it and how many are done
  pest_error,       \* whether an Error frame was written to the connection
  pest_failed,      \* history: the site whose authority failed during the
                    \* visit of the connection, or 0
  \* ---- insecure sockets layer (server_08.rs) ----
  cipher_pc,        \* position of the connection's handle_connection
  client_ops,       \* history: the cipher the client chose
  cipher_wire,      \* the bytes of the client that are not read yet
  cipher_buffer,    \* buffer of handle_connection
  cipher_ops,       \* ObfuscationLayer.cipher_ops
  client_pos,       \* ObfuscationLayer.client_pos
  server_pos,       \* ObfuscationLayer.server_pos
  workshop,         \* Workshop.buffer, as bytes
  cipher_decoded,   \* history: the number of bytes decoded
  cipher_written,   \* history: the number of bytes written to the client
  \* ---- read_until (utils.rs) ----
  ru_pc,            \* position of the caller: between calls, in a call that
                    \* waits for a read, after the call that returned None
  ru_input,         \* history: the bytes of the whole stream
  ru_stream,        \* the bytes of the stream that are not read yet
  ru_buffer,        \* buffer, owned by the caller
  ru_data,          \* data of the call that waits for a read
  ru_lines,         \* history: the lines returned
  \* ---- LRCP, the two mutexes of Server (server_07.rs) ----
  lk_sessions,      \* ServerState.sessions
  lk_handles,       \* Server.ack_tasks : u32 -> JoinHandle (a task id)
  lk_tasks,         \* the live retransmit tasks : task id -> (sid, aborted)
  lk_next,          \* the id the next spawned task gets
  lk_busy,          \* whether a handle_connection holds the lock of state
  lk_responses,     \* the responses that handle_connection still has to process
  lk_holder,        \* the task that holds the lock of ack_tasks in
                    \* close_session and waits for the lock of state, or 0
  \* ---- pest control, the bytes of one client (server_11.rs, utils.rs) ----
  rf_pc,            \* position of handle_connection: before the first
                    \* parse_message, in the loop, or at its end
  rf_frames,        \* history: the messages the client sent, in order
  rf_stream,        \* the bytes of the client that are not read yet
  rf_buffer,        \* the buffer handle_connection passes to parse_message
  rf_call,          \* the read_for that parse_message is in
  rf_processed      \* history: the messages handle_connection accepted

brokerVars == <<next_client_id, next_job_id, client_jobs, queues,
                waiting_clients, waiting, signalled, bpc, request, to_notify,
                state_lock, deleted, hung_up>>

lrcpVars == <<sessions, ack_tasks, tasks, next_task, rx_stream, tx_stream>>

speedVars == <<writers, cameras, dispatchers, observations, have_heartbeats,
               ticket_queue, ticket_sent, spc, client_id, message_list,
               heartbeats, debug_build, generated, declared>>

frameVars == <<frame_sessions, frame_sent>>

chatVars == <<connections, cpc, username, broken, poisoned>>

storeVars == <<root, store_pc, store_read, answer, stored>>

pestVars == <<site_states, site_lock, auth_connections, pest_pc, pest_visit,
              pest_error, pest_failed>>

cipherVars == <<cipher_pc, client_ops, cipher_wire, cipher_buffer, cipher_ops,
                client_pos, server_pos, workshop, cipher_decoded, cipher_written>>

linesVars == <<ru_pc, ru_input, ru_stream, ru_buffer, ru_data, ru_lines>>

lockVars == <<lk_sessions, lk_handles, lk_tasks, lk_next, lk_busy,
              lk_responses, lk_holder>>

bytesVars == <<rf_pc, rf_frames, rf_stream, rf_buffer, rf_call, rf_processed>>

lastVars == <<lockVars, bytesVars>>

laterVars == <<storeVars, pestVars, cipherVars, linesVars, lastVars>>

\* the variables of the other servers
\* (laterVars: the servers declared after the chat)
nonBrokerVars == <<lrcpVars, frameVars, speedVars, chatVars, laterVars>>
nonLrcpVars == <<brokerVars, frameVars, speedVars, chatVars, laterVars>>
nonFrameVars == <<brokerVars, lrcpVars, speedVars, chatVars, laterVars>>
nonSpeedVars == <<brokerVars, lrcpVars, frameVars, chatVars, laterVars>>
nonChatVars == <<brokerVars, lrcpVars, frameVars, speedVars, laterVars>>
earlierVars == <<brokerVars, lrcpVars, frameVars, speedVars, chatVars>>
nonStoreVars == <<earlierVars, pestVars, cipherVars, linesVars, lastVars>>
nonPestVars == <<earlierVars, storeVars, cipherVars, linesVars, lastVars>>
nonCipherVars == <<earlierVars, storeVars, pestVars, linesVars, lastVars>>
nonLinesVars == <<earlierVars, storeVars, pestVars, cipherVars, lastVars>>
beforeLastVars == <<earlierVars, storeVars, pestVars, cipherVars, linesVars>>
nonLockVars == <<beforeLastVars, bytesVars>>
nonBytesVars == <<beforeLastVars, lockVars>>

vars == <<earlierVars, laterVars>>

NoRequest == [type |-> "none", queue |-> NoQueue, pri |-> 0, queues |-> <<>>,
              wait |-> FALSE, id |-> 0]

PutRequests == {[type |-> "put", queue |-> q, pri |-> p, queues |-> <<>>,
                 wait |-> FALSE, id |-> 0] : q \in QueueNames, p \in PutPriorities}
GetRequests == {[type |-> "get", queue |-> NoQueue, pri |-> 0, queues |-> qs,
                 wait |-> w, id |-> 0] : qs \in QueueLists, w \in BOOLEAN}
DeleteRequests == {[type |-> "delete", queue |-> NoQueue, pri |-> 0, queues |-> <<>>,
                    wait |-> FALSE, id |-> i] : i \in JobIds}
AbortRequests == {[type |-> "abort", queue |-> NoQueue, pri |-> 0, queues |-> <<>>,
                   wait |-> FALSE, id |-> i] : i \in JobIds}
\* a request whose "request" key names no known type
BadRequests == {[type |-> "bad", queue |-> NoQueue, pri |-> 0, queues |-> <<>>,
                 wait |-> FALSE, id |-> 0]}
Requests == PutRequests \cup GetRequests \cup DeleteRequests \cup
            AbortRequests \cup BadRequests

Job(i, q, p) == [id |-> i, queue |-> q, priority |-> p]

\* HashMap::entry(k).or_insert_with(Vec::new).push(v)
MapPush(m, k, v) ==
  [x \in DOMAIN m \cup {k} |->
     IF x = k THEN (IF k \in DOMAIN m THEN Append(m[k], v) ELSE <<v>>)
     ELSE m[x]]

\* HashMap::insert
MapInsert(m, k, v) == [x \in DOMAIN m \cup {k} |-> IF x = k THEN v ELSE m[x]]

\* HashMap::remove
MapRemove(m, k) == [x \in DOMAIN m \ {k} |-> m[x]]

\* The loop "for (&client_id, waiting_queues) in &self.waiting_clients": the
\* first client, in iteration order ord, whose queue list contains q (0: none).
FirstWaiter(wc, ord, q) ==
  IF \E k \in 1..Len(ord) : Contains(wc[ord[k]], q)
  THEN ord[CHOOSE k \in 1..Len(ord) :
             /\ Contains(wc[ord[k]], q)
             /\ \A m \in 1..(k - 1) : ~Contains(wc[ord[m]], q)]
  ELSE 0

\* Notify messages pushed for a job that goes (back) to queue q
NotifyFor(wc, ord, q) ==
  IF FirstWaiter(wc, ord, q) = 0 THEN <<>> ELSE <<FirstWaiter(wc, ord, q)>>

\* "self.queues[queue].iter().map(|job| job.priority).max()"; -1 stands for None
MaxPriority(jobs) ==
  IF Len(jobs) = 0 THEN -1
  ELSE CHOOSE p \in {jobs[k].priority : k \in 1..Len(jobs)} :
         \A k \in 1..Len(jobs) : jobs[k].priority <= p

\* One pass of the loop of ServerState::get over the requested queues, from
\* index k on; acc is (highest_prio, highest_prio_queue).
RECURSIVE ScanQueues(_, _, _, _)
ScanQueues(qs, reqs, k, acc) ==
  IF k > Len(reqs) THEN acc
  ELSE IF reqs[k] \notin DOMAIN qs THEN ScanQueues(qs, reqs, k + 1, acc)
  ELSE IF MaxPriority(qs[reqs[k]]) = -1 THEN ScanQueues(qs, reqs, k + 1, acc)
  ELSE IF MaxPriority(qs[reqs[k]]) > acc.prio
       THEN ScanQueues(qs, reqs, k + 1,
                       [prio |-> MaxPriority(qs[reqs[k]]), queue |-> reqs[k]])
       ELSE ScanQueues(qs, reqs, k + 1, acc)

\* highest_prio and highest_prio_queue after the loop (highest_prio starts at 0)
HighestOf(qs, reqs) == ScanQueues(qs, reqs, 1, [prio |-> 0, queue |-> NoQueue])

\* "queue.iter().position(|job| job.priority == highest_prio).unwrap()"
PositionOfPriority(jobs, p) ==
  CHOOSE k \in 1..Len(jobs) :
    jobs[k].priority = p /\ \A m \in 1..(k - 1) : jobs[m].priority # p

\* ServerState::delete on one queue: swap_remove of the job with this id
DeleteFromQueue(jobs, id) ==
  IF PositionOfId(jobs, id) = 0 THEN jobs
  ELSE SeqSwapRemove(jobs, PositionOfId(jobs, id))

\* mutant of DeleteFromAssigned: delete forgets the assigned lists
DeleteFromAssigned_Skips(jobs, id) == jobs

\* ServerState::delete on one assigned list: retain(|job| job.id != job_id)
DeleteFromAssigned(jobs, id) == SelectSeq(jobs, LAMBDA j : j.id # id)

\* ServerState::disconnect: the loop over the jobs of the removed list, from
\* index k on: acc is (queues, the Notify messages pushed so far).
RECURSIVE RequeueAll(_, _, _, _, _)
RequeueAll(jobs, k, wc, ord, acc) ==
  IF k > Len(jobs) THEN acc
  ELSE RequeueAll(jobs, k + 1, wc, ord,
         [queues |-> MapPush(acc.queues, jobs[k].queue, jobs[k]),
          notify |-> acc.notify \o NotifyFor(wc, ord, jobs[k].queue)])

(***************************************************************************)
(* The job broker: ServerState's operations.  Each is the effect of one    *)
(* get_responses call made under the state lock by client c for request r; *)
(* ord is the iteration order of waiting_clients.  resp is the Response,   *)
(* notify the Notify messages, wait whether Waiting was returned.          *)
(***************************************************************************)
Response(st, id, pri, q) == [status |-> st, job |-> id, pri |-> pri, queue |-> q]

Unchanged(resp) ==
  [next_job_id |-> next_job_id, client_jobs |-> client_jobs, queues |-> queues,
   waiting_clients |-> waiting_clients, resp |-> resp, notify |-> <<>>,
   wait |-> FALSE]

\* ServerState::put
PutOp(r, ord) ==
  IF r.pri < 0 THEN Unchanged(Response("error", 0, 0, NoQueue))
  ELSE [Unchanged(Response("ok", next_job_id, 0, NoQueue)) EXCEPT
          !.next_job_id = next_job_id + 1,
          !.notify = NotifyFor(waiting_clients, ord, r.queue),
          !.queues = MapPush(queues, r.queue, Job(next_job_id, r.queue, r.pri))]

\* ServerState::get
GetOp(c, r) ==
  LET h == HighestOf(queues, r.queues) IN
  IF h.queue # NoQueue
  THEN LET index == PositionOfPriority(queues[h.queue], h.prio)
           job == queues[h.queue][index]
       IN [Unchanged(Response("ok", job.id, job.priority, h.queue)) EXCEPT
             !.queues = [queues EXCEPT ![h.queue] = SeqRemove(@, index)],
             !.client_jobs = MapPush(client_jobs, c, job)]
  ELSE IF r.wait
       THEN [Unchanged(Response("none", 0, 0, NoQueue)) EXCEPT
               !.waiting_clients = MapInsert(waiting_clients, c, r.queues),
               !.wait = TRUE]
       ELSE Unchanged(Response("no-job", 0, 0, NoQueue))

\* ServerState::delete
DeleteOp(r) ==
  LET qs == [q \in DOMAIN queues |-> DeleteFromQueue(queues[q], r.id)]
      cj == [x \in DOMAIN client_jobs |-> DeleteFromAssigned(client_jobs[x], r.id)]
      job_removed == qs # queues \/ cj # client_jobs
  IN [Unchanged(Response(IF job_removed THEN "ok" ELSE "no-job", 0, 0, NoQueue))
        EXCEPT !.queues = qs, !.client_jobs = cj]

\* ServerState::abort
AbortOp(c, r, ord) ==
  IF c \notin DOMAIN client_jobs
  THEN Unchanged(Response("no-job", 0, 0, NoQueue))
  ELSE LET job_index == PositionOfId(client_jobs[c], r.id) IN
       IF job_index = 0 THEN Unchanged(Response("error", 0, 0, NoQueue))
       ELSE LET job == client_jobs[c][job_index] IN
            [Unchanged(Response("ok", 0, 0, NoQueue)) EXCEPT
               !.client_jobs = [client_jobs EXCEPT ![c] = SeqSwapRemove(@, job_index)],
               !.notify = NotifyFor(waiting_clients, ord, job.queue),
               !.queues = MapPush(queues, job.queue, job)]

\* ServerState::disconnect
DisconnectOp(c, ord) ==
  IF c \notin DOMAIN client_jobs
  THEN Unchanged(Response("none", 0, 0, NoQueue))
  ELSE LET out == RequeueAll(client_jobs[c], 1, waiting_clients, ord,
                             [queues |-> queues, notify |-> <<>>])
       IN [Unchanged(Response("none", 0, 0, NoQueue)) EXCEPT
             !.client_jobs = MapRemove(client_jobs, c),
             !.queues = out.queues,
             !.notify = out.notify]

\* ServerState::get_responses
GetResponses(c, r, ord) ==
  CASE r.type = "put" -> PutOp(r, ord)
    [] r.type = "get" -> GetOp(c, r)
    [] r.type = "delete" -> DeleteOp(r)
    [] r.type = "abort" -> AbortOp(c, r, ord)
    [] OTHER -> Unchanged(Response("error", 0, 0, NoQueue))

(***************************************************************************)
(* The job broker: Server::handle_connection, one action per step between  *)
(* two suspension points.                                                  *)
(***************************************************************************)
BrokerInit ==
  /\ next_client_id = 0
  /\ next_job_id = 1
  /\ client_jobs = <<>>
  /\ queues = <<>>
  /\ waiting_clients = <<>>
  /\ waiting = {}
  /\ signalled = {}
  /\ bpc = [c \in ClientIds |-> "init"]
  /\ request = [c \in ClientIds |-> NoRequest]
  /\ to_notify = [c \in ClientIds |-> <<>>]
  /\ state_lock = 0
  /\ deleted = {}
  /\ hung_up = {}

\* Where job id is: every position of a queue or of an assigned list that
\* holds a job with this id.
Places(id) ==
  UNION {{[kind |-> "queue", queue |-> q, client |-> 0, k |-> m] :
            m \in {k \in 1..Len(queues[q]) : queues[q][k].id = id}} :
          q \in DOMAIN queues}
  \cup
  UNION {{[kind |-> "client", queue |-> NoQueue, client |-> c, k |-> m] :
            m \in {k \in 1..Len(client_jobs[c]) : client_jobs[c][k].id = id}} :
          c \in DOMAIN client_jobs}

\* The client whose assigned list holds job id (0: no client)
HolderOf(id) ==
  IF \E c \in DOMAIN client_jobs : PositionOfId(client_jobs[c], id) # 0
  THEN CHOOSE c \in DOMAIN client_jobs : PositionOfId(client_jobs[c], id) # 0
  ELSE 0

\* The iteration orders of waiting_clients a request may observe (only put and
\* abort iterate over it).
IterationOrders(r) ==
  IF r.type \in {"put", "abort"} THEN Orders(DOMAIN waiting_clients)
  ELSE {<<>>}

\* The state lock is taken, get_responses runs, the lock is dropped and the
\* Response (if any) is written to the client's own stream.
Serve(c, r) ==
  /\ state_lock = 0
  /\ \E ord \in IterationOrders(r) :
       LET out == GetResponses(c, r, ord) IN
       /\ next_job_id' = out.next_job_id
       /\ client_jobs' = out.client_jobs
       /\ queues' = out.queues
       /\ waiting_clients' = out.waiting_clients
       /\ to_notify' = [to_notify EXCEPT ![c] = out.notify]
       /\ request' = [request EXCEPT ![c] = IF out.wait THEN r ELSE NoRequest]
       /\ bpc' = [bpc EXCEPT ![c] = IF out.wait THEN "must_wait"
                                    ELSE IF out.notify # <<>> THEN "notifying"
                                    ELSE "idle"]
       /\ deleted' = IF r.type = "delete" /\ Places(r.id) # {}
                     THEN deleted \cup {<<r.id, HolderOf(r.id)>>}
                     ELSE deleted
  /\ UNCHANGED <<next_client_id, waiting, state_lock, hung_up>>

\* get_client_id at the start of handle_connection
BConnect(c) ==
  /\ bpc[c] = "init"
  /\ c = next_client_id + 1
  /\ next_client_id' = c
  /\ bpc' = [bpc EXCEPT ![c] = "idle"]
  /\ UNCHANGED <<next_job_id, client_jobs, queues, waiting_clients, waiting,
                 signalled, request, to_notify, state_lock, deleted, hung_up>>
  /\ UNCHANGED nonBrokerVars

\* read_until returned a request line
BRequest(c) ==
  /\ bpc[c] = "idle"
  /\ \E r \in Requests :
       /\ r.type = "put" /\ r.pri >= 0 => next_job_id <= MaxJobs
       /\ Serve(c, r)
  /\ UNCHANGED signalled
  /\ UNCHANGED nonBrokerVars

\* Server::notify for the first pending Notify message; after the last one the
\* handler goes back to reading (or, in the disconnect path, ends and drops
\* the state lock it held all along).
BNotify(c) ==
  /\ bpc[c] \in {"notifying", "closing"}
  /\ to_notify[c] # <<>>
  /\ LET t == Head(to_notify[c]) IN
       /\ waiting' = waiting \ {t}
       /\ signalled' = IF t \in waiting THEN signalled \cup {t} ELSE signalled
  /\ to_notify' = [to_notify EXCEPT ![c] = Tail(@)]
  /\ IF Len(to_notify[c]) = 1
     THEN /\ bpc' = [bpc EXCEPT ![c] = IF @ = "closing" THEN "done" ELSE "idle"]
          /\ state_lock' = IF bpc[c] = "closing" THEN 0 ELSE state_lock
     ELSE UNCHANGED <<bpc, state_lock>>
  /\ UNCHANGED <<next_client_id, next_job_id, client_jobs, queues,
                 waiting_clients, request, deleted, hung_up>>
  /\ UNCHANGED nonBrokerVars

\* Server::wait_job up to "event2.notified().await"
BWaitJob(c) ==
  /\ bpc[c] = "must_wait"
  /\ waiting' = waiting \cup {c}
  /\ bpc' = [bpc EXCEPT ![c] = "waiting"]
  /\ UNCHANGED <<next_client_id, next_job_id, client_jobs, queues,
                 waiting_clients, signalled, request, to_notify, state_lock, deleted,
                 hung_up>>
  /\ UNCHANGED nonBrokerVars

\* notified() returns and the same request is served again
BWake(c) ==
  /\ bpc[c] = "waiting"
  /\ c \in signalled
  /\ signalled' = signalled \ {c}
  /\ Serve(c, request[c])
  /\ UNCHANGED nonBrokerVars

\* read_until returned None: the state lock is taken and kept while the
\* Notify messages of ServerState::disconnect are processed.
BDisconnect(c) ==
  /\ bpc[c] = "idle"
  /\ state_lock = 0
  /\ \E ord \in Orders(DOMAIN waiting_clients) :
       LET out == DisconnectOp(c, ord) IN
       /\ client_jobs' = out.client_jobs
       /\ queues' = out.queues
       /\ to_notify' = [to_notify EXCEPT ![c] = out.notify]
       /\ bpc' = [bpc EXCEPT ![c] = IF out.notify # <<>> THEN "closing" ELSE "done"]
       /\ state_lock' = IF out.notify # <<>> THEN c ELSE 0
  /\ UNCHANGED <<next_client_id, next_job_id, waiting_clients, waiting,
                 signalled, request, deleted, hung_up>>
  /\ UNCHANGED nonBrokerVars

BrokerNext ==
  \E c \in ClientIds :
    \/ BConnect(c)
    \/ BRequest(c)
    \/ BNotify(c)
    \/ BWaitJob(c)
    \/ BWake(c)
    \/ BDisconnect(c)

\* the requests of the clients of the broker with waiting clients that hang up
WaiterRequests ==
  {r \in PutRequests : r.queue = "q1" /\ r.pri = 1}
    \cup {r \in GetRequests : r.queues = <<"q1">> /\ r.wait}

\* read_until returned a put or a waiting get of a client that has not hung up
BPutGet(c) ==
  /\ bpc[c] = "idle"
  /\ c \notin hung_up
  /\ \E r \in WaiterRequests :
       /\ r.type = "put" => next_job_id <= MaxJobs
       /\ Serve(c, r)
  /\ UNCHANGED signalled
  /\ UNCHANGED nonBrokerVars

\* the client closes its connection while its handler is in wait_job, which
\* does not read the stream
BHangUp(c) ==
  /\ bpc[c] \in {"must_wait", "waiting"}
  /\ c \notin hung_up
  /\ hung_up' = hung_up \cup {c}
  /\ UNCHANGED <<next_client_id, next_job_id, client_jobs, queues,
                 waiting_clients, waiting, signalled, bpc, request, to_notify,
                 state_lock, deleted>>
  /\ UNCHANGED nonBrokerVars

\* The broker with puts and waiting gets on one queue, and clients that hang
\* up while they wait.
WaiterNext ==
  \E c \in ClientIds :
    \/ BConnect(c)
    \/ BPutGet(c)
    \/ BNotify(c)
    \/ BWaitJob(c)
    \/ BWake(c)
    \/ BDisconnect(c)
    \/ BHangUp(c)


(***************************************************************************)
(* Job broker: properties.                                                 *)
(***************************************************************************)
\* q's entry of a queue map, empty when the map has no such key
QueueOf(qs, q) == IF q \in DOMAIN qs THEN qs[q] ELSE <<>>

\* the jobs of a list that belong to queue q, in list order
JobsFor(jobs, q) == SelectSeq(jobs, LAMBDA j : j.queue = q)

\* client w is blocked in a get{wait:true} that lists queue q and has not
\* been woken
BlockedOn(w, q) ==
  /\ bpc[w] \in {"must_wait", "waiting"}
  /\ w \notin signalled
  /\ Contains(waiting_clients[w], q)

\* C1: every job id is in at most one place: one position of one queue or one
\* position of one client's assigned list.
C1_Conservation == \A id \in JobIds : Cardinality(Places(id)) <= 1

\* C1 witness: a disconnect has put a job back on a queue (and has a waiter to
\* wake for it) while the other client holds a job it got earlier.
C1_Witness ==
  \E c \in ClientIds :
    /\ bpc[c] = "closing"
    /\ \E q \in DOMAIN queues : queues[q] # <<>>
    /\ \E d \in DOMAIN client_jobs : client_jobs[d] # <<>>

\* C4 (as claimed): whenever a put, an abort or a disconnect places a job on a
\* queue on which some client is blocked, the Notify it produces for that job
\* names a client that is blocked on that queue.
C4_WakeBlockedClient ==
  state_lock = 0 =>
    \A c \in ClientIds : bpc[c] = "idle" =>
      \A ord \in Orders(DOMAIN waiting_clients) :
        /\ \A r \in PutRequests :
             (r.pri >= 0 /\ \E w \in ClientIds : BlockedOn(w, r.queue)) =>
               LET out == PutOp(r, ord) IN
               /\ Len(out.notify) = 1
               /\ BlockedOn(out.notify[1], r.queue)
        /\ \A r \in AbortRequests :
             LET out == AbortOp(c, r, ord) IN
             \A q \in QueueNames :
               (/\ Len(QueueOf(out.queues, q)) > Len(QueueOf(queues, q))
                /\ \E w \in ClientIds : BlockedOn(w, q)) =>
                 /\ Len(out.notify) = 1
                 /\ BlockedOn(out.notify[1], q)
        /\ LET out == DisconnectOp(c, ord) IN
           \A q \in QueueNames :
             (/\ Len(QueueOf(out.queues, q)) > Len(QueueOf(queues, q))
              /\ \E w \in ClientIds : BlockedOn(w, q)) =>
               /\ \E k \in 1..Len(out.notify) : BlockedOn(out.notify[k], q)
               /\ \A k \in 1..Len(out.notify) :
                    \E x \in QueueNames : BlockedOn(out.notify[k], x)

\* C5 (as claimed, in the form a finite run refutes): a client that waits on
\* its signal is never stranded: when no handler has a step left to take (no
\* Notify is pending and nobody else is between two steps), no job of non-zero
\* priority sits on a queue the waiting client listed.
C5_NoStrandedWaiter ==
  \A w \in ClientIds :
    (/\ bpc[w] = "waiting"
     /\ w \in waiting
     /\ \A c \in ClientIds : to_notify[c] = <<>>
     /\ \A c \in ClientIds \ {w} : bpc[c] \in {"init", "idle", "done"})
    => \A k \in 1..Len(waiting_clients[w]) :
         \A m \in 1..Len(QueueOf(queues, waiting_clients[w][k])) :
           queues[waiting_clients[w][k]][m].priority = 0

\* the jobs of the listed queues
ListedJobs(qlist) ==
  UNION {Range(QueueOf(queues, qlist[k])) : k \in 1..Len(qlist)}

\* C6 (as claimed): a get whose listed queues hold a job answers with a job of
\* the maximum priority over the listed queues; it answers no-job or waits
\* only when every listed queue is empty.
C6_GetHighestPriority ==
  \A c \in ClientIds : \A r \in GetRequests :
    LET out == GetOp(c, r)
        listed == ListedJobs(r.queues)
    IN IF listed # {}
       THEN /\ out.resp.status = "ok"
            /\ \A j \in listed : j.priority <= out.resp.pri
            /\ \E j \in listed : j.id = out.resp.job /\ j.priority = out.resp.pri
       ELSE out.resp.status \in {"no-job", "none"}

\* C7: a disconnect of client c removes c's assigned list, appends exactly the
\* jobs of that list to the queue each job names (in list order), and changes
\* no other queue entry and no other client's list; a job deleted earlier is
\* in no queue and no list, so it is not restored.
C7_DisconnectRequeues ==
  /\ \A d \in deleted : Places(d[1]) = {}
  /\ state_lock = 0 =>
       \A c \in ClientIds : bpc[c] = "idle" =>
         \A ord \in Orders(DOMAIN waiting_clients) :
           LET out == DisconnectOp(c, ord)
               held == IF c \in DOMAIN client_jobs THEN client_jobs[c] ELSE <<>>
           IN /\ DOMAIN out.client_jobs = DOMAIN client_jobs \ {c}
              /\ \A x \in DOMAIN out.client_jobs :
                   out.client_jobs[x] = client_jobs[x]
              /\ \A q \in QueueNames :
                   QueueOf(out.queues, q) = QueueOf(queues, q) \o JobsFor(held, q)
              /\ \A d \in deleted : \A q \in QueueNames :
                   PositionOfId(QueueOf(out.queues, q), d[1]) = 0

\* C7 witness: a client disconnected (its jobs were put back and a waiter is
\* about to be woken) after a job was deleted while that client held it.
C7_Witness ==
  \E c \in ClientIds :
    /\ bpc[c] = "closing"
    /\ c \notin DOMAIN client_jobs
    /\ \E d \in deleted : d[2] = c

\* C8 (as claimed): an abort of a job the client does not hold is answered
\* with an error and changes no queue and no assigned list.
C8_AbortNotHeld ==
  \A c \in ClientIds : bpc[c] = "idle" =>
    \A r \in AbortRequests : \A ord \in Orders(DOMAIN waiting_clients) :
      (c \notin DOMAIN client_jobs \/ PositionOfId(client_jobs[c], r.id) = 0) =>
        LET out == AbortOp(c, r, ord) IN
        /\ out.resp.status = "error"
        /\ out.queues = queues
        /\ out.client_jobs = client_jobs

\* the number of jobs assigned to client c in client_jobs cj
NumAssigned(cj, c) == IF c \in DOMAIN cj THEN Len(cj[c]) ELSE 0

\* C32: once a client has hung up while its handler was in wait_job, no step
\* assigns it a job, and when its handler has ended the client is no longer
\* registered in waiting_clients.
C32_WaiterCancelled ==
  [][\A c \in hung_up :
       /\ NumAssigned(client_jobs', c) <= NumAssigned(client_jobs, c)
       /\ bpc'[c] = "done" => c \notin DOMAIN waiting_clients']_vars

(***************************************************************************)
(* LRCP (server_07.rs).  Bytes are modelled as the strings "a", "b", "NL"  *)
(* (newline), "SL" (slash) and "BS" (backslash); a String is a sequence of *)
(* them.                                                                   *)
(***************************************************************************)

\* str::replace of one byte by a string
RECURSIVE ReplaceByte(_, _, _)
ReplaceByte(str, ch, rep) ==
  IF str = <<>> THEN <<>>
  ELSE (IF Head(str) = ch THEN rep ELSE <<Head(str)>>)
       \o ReplaceByte(Tail(str), ch, rep)

\* str::replace of the two-byte pattern <<c1, c2>> by one byte, matching from
\* the left without overlap
RECURSIVE ReplacePair(_, _, _, _)
ReplacePair(str, c1, c2, rep) ==
  IF Len(str) < 2 THEN str
  ELSE IF str[1] = c1 /\ str[2] = c2
       THEN <<rep>> \o ReplacePair(SubSeq(str, 3, Len(str)), c1, c2, rep)
       ELSE <<str[1]>> \o ReplacePair(Tail(str), c1, c2, rep)

\* ServerState::escape
Escape(data) ==
  ReplaceByte(ReplaceByte(data, "BS", <<"BS", "BS">>), "SL", <<"BS", "SL">>)

\* ServerState::unescape
Unescape(data) == ReplacePair(ReplacePair(data, "BS", "BS", "BS"), "BS", "SL", "SL")

\* the "data" regex's DATA group: (?:[^/\\]|\\/|\\\\)+ up to the end
RECURSIVE MatchesDataTokens(_)
MatchesDataTokens(str) ==
  IF str = <<>> THEN TRUE
  ELSE IF str[1] \notin {"SL", "BS"} THEN MatchesDataTokens(Tail(str))
  ELSE /\ str[1] = "BS"
       /\ Len(str) >= 2
       /\ str[2] \in {"SL", "BS"}
       /\ MatchesDataTokens(SubSeq(str, 3, Len(str)))

MatchesData(str) == str # <<>> /\ MatchesDataTokens(str)

\* chars().rev()
RECURSIVE Reverse(_)
Reverse(str) == IF str = <<>> THEN <<>> ELSE Reverse(Tail(str)) \o <<Head(str)>>

\* str::split("\n"): the pieces between newlines (always at least one piece)
RECURSIVE SplitLines(_, _)
SplitLines(str, cur) ==
  IF str = <<>> THEN <<cur>>
  ELSE IF Head(str) = "NL" THEN <<cur>> \o SplitLines(Tail(str), <<>>)
  ELSE SplitLines(Tail(str), Append(cur, Head(str)))

\* the loop of Session::push over lines[1 .. len-1]
RECURSIVE ReverseMiddle(_, _)
ReverseMiddle(lines, k) ==
  IF k >= Len(lines) THEN <<>>
  ELSE Reverse(lines[k]) \o <<"NL">> \o ReverseMiddle(lines, k + 1)

NewSession == [data_received |-> <<>>, data_to_send |-> <<>>,
               length_received |-> 0, length_sent |-> 0, length_acked |-> 0]

\* mutant of Push: the pending bytes are not put in front of the first newline
Push_DropsPending(session, data) ==
  IF ~Contains(data, "NL")
  THEN [session EXCEPT !.length_received = @ + Len(data),
                       !.data_received = @ \o data]
  ELSE LET lines == SplitLines(data, <<>>) IN
       [session EXCEPT
          !.length_received = @ + Len(data),
          !.data_to_send = @ \o Reverse(lines[1]) \o <<"NL">>
                             \o ReverseMiddle(lines, 2),
          !.data_received = lines[Len(lines)]]

\* Session::push
Push(session, data) ==
  IF ~Contains(data, "NL")
  THEN [session EXCEPT !.length_received = @ + Len(data),
                       !.data_received = @ \o data]
  ELSE LET lines == SplitLines(data, <<>>) IN
       [session EXCEPT
          !.length_received = @ + Len(data),
          !.data_to_send = @ \o Reverse(lines[1]) \o Reverse(session.data_received)
                             \o <<"NL">> \o ReverseMiddle(lines, 2),
          !.data_received = lines[Len(lines)]]

\* stands for the 950 of Session::get_message (server_07.rs:60), scaled down
\* so that slices shorter than data_to_send occur with short strings
MaxSlice == 2

Min(a, b) == IF a < b THEN a ELSE b

\* Session::get_message; <<>> stands for None
GetMessage(session) ==
  SubSeq(session.data_to_send, 1, Min(Len(session.data_to_send), MaxSlice))

\* Session::acknowledge
Acknowledge(session) ==
  [session EXCEPT
     !.data_to_send = SubSeq(@, session.length_sent - session.length_acked + 1,
                             Len(@)),
     !.length_acked = session.length_sent]

\* the messages of the server
AckMsg(sid) == [kind |-> "Ack", sid |-> sid, type |-> "", pos |-> 0, data |-> <<>>]
CloseMsg(sid) == [kind |-> "Close", sid |-> sid, type |-> "", pos |-> 0, data |-> <<>>]
\* Data{data: "/ack/SID/LEN/"}
DataAck(sid, len) ==
  [kind |-> "Data", sid |-> sid, type |-> "ack", pos |-> len, data |-> <<>>]
\* Data{data: "/data/SID/POS/DATA/"}
DataData(sid, pos, data) ==
  [kind |-> "Data", sid |-> sid, type |-> "data", pos |-> pos, data |-> data]

\* mutant of SendNext: length_sent advances by the slice limit, not by the
\* length of the slice
SendNext_CountsFullSlice(sid, session) ==
  IF GetMessage(session) = <<>>
  THEN [session |-> session, msgs |-> <<>>]
  ELSE [session |-> [session EXCEPT !.length_sent = @ + MaxSlice],
        msgs |-> <<DataData(sid, session.length_acked, Escape(GetMessage(session)))>>]

\* the Data message for the next slice and the session once it is counted as sent
SendNext(sid, session) ==
  IF GetMessage(session) = <<>>
  THEN [session |-> session, msgs |-> <<>>]
  ELSE [session |-> [session EXCEPT !.length_sent = @ + Len(GetMessage(session))],
        msgs |-> <<DataData(sid, session.length_acked, Escape(GetMessage(session)))>>]

\* mutant of ConnectSession: insert instead of entry().or_insert()
ConnectSession_Replaces(ss, sid) ==
  [sessions |-> MapInsert(ss, sid, NewSession),
   responses |-> <<DataAck(sid, 0)>>]

\* ServerState::connect_session
ConnectSession(ss, sid) ==
  [sessions |-> IF sid \in DOMAIN ss THEN ss ELSE MapInsert(ss, sid, NewSession),
   responses |-> <<DataAck(sid, 0)>>]

\* mutant of ReceiveData: data at a position already received is accepted too
ReceiveData_AcceptsStale(ss, sid, pos, data) ==
  IF sid \notin DOMAIN ss
  THEN [sessions |-> ss, responses |-> <<CloseMsg(sid)>>]
  ELSE LET session == ss[sid]
           unescaped == Unescape(data)
       IN IF session.length_received >= pos
          THEN LET pushed == Push(session, unescaped)
                   next == IF pushed.length_acked = pushed.length_sent
                           THEN SendNext(sid, pushed)
                           ELSE [session |-> pushed, msgs |-> <<>>]
               IN [sessions |-> [ss EXCEPT ![sid] = next.session],
                   responses |-> <<DataAck(sid, pos + Len(unescaped))>> \o next.msgs]
          ELSE [sessions |-> ss,
                responses |-> <<DataAck(sid, session.length_received)>>]

\* ServerState::receive_data (data is the DATA field as received)
ReceiveData(ss, sid, pos, data) ==
  IF sid \notin DOMAIN ss
  THEN [sessions |-> ss, responses |-> <<CloseMsg(sid)>>]
  ELSE LET session == ss[sid]
           unescaped == Unescape(data)
       IN IF session.length_received = pos
          THEN LET pushed == Push(session, unescaped)
                   next == IF pushed.length_acked = pushed.length_sent
                           THEN SendNext(sid, pushed)
                           ELSE [session |-> pushed, msgs |-> <<>>]
               IN [sessions |-> [ss EXCEPT ![sid] = next.session],
                   responses |-> <<DataAck(sid, pos + Len(unescaped))>> \o next.msgs]
          ELSE [sessions |-> ss,
                responses |-> <<DataAck(sid, session.length_received)>>]

\* ServerState::receive_ack
ReceiveAck(ss, sid, pos) ==
  IF sid \notin DOMAIN ss
  THEN [sessions |-> ss, responses |-> <<CloseMsg(sid)>>]
  ELSE LET session == ss[sid] IN
       IF pos < session.length_acked
       THEN [sessions |-> ss, responses |-> <<AckMsg(sid)>>]
       ELSE IF pos = session.length_sent
       THEN LET next == SendNext(sid, Acknowledge(session)) IN
            [sessions |-> [ss EXCEPT ![sid] = next.session],
             responses |-> <<AckMsg(sid)>> \o next.msgs]
       ELSE IF pos > session.length_sent
       THEN [sessions |-> ss, responses |-> <<AckMsg(sid), CloseMsg(sid)>>]
       ELSE IF GetMessage(session) = <<>>
       THEN \* get_message().unwrap() panics: the handler ends without a response
            [sessions |-> ss, responses |-> <<>>]
       ELSE [sessions |-> ss,
             responses |-> <<AckMsg(sid),
                             DataData(sid, session.length_acked,
                                      Escape(GetMessage(session)))>>]

\* ServerState::close_session
CloseSession(ss, sid) ==
  [sessions |-> IF sid \in DOMAIN ss THEN MapRemove(ss, sid) ELSE ss,
   responses |-> <<CloseMsg(sid)>>]

(***************************************************************************)
(* LRCP: Server::handle_connection and the retransmit tasks.  A datagram   *)
(* is handled under the state lock from process_request to the last        *)
(* response, so one action handles one datagram.                           *)
(***************************************************************************)
\* bounds of the LRCP model
MaxRx == 3
MaxTasks == 2
SessionIds == {1}
\* the DATA fields of the data datagrams the peer sends, as on the wire
WirePayloads == {<<"a">>, <<"b", "NL">>, <<"a", "NL", "b">>,
                 <<"BS", "SL", "NL">>, <<"BS", "BS">>,
                 <<>>, <<"BS", "a">>, <<"NL">>}
\* the POS of a data datagram and the LEN of an ack datagram
DataPositions == 0..MaxRx
AckPositions == 0..(MaxRx + 1)

\* the bytes a DATA field stands for: "\/" is a slash, "\\" a backslash
RECURSIVE PayloadOf(_)
PayloadOf(wire) ==
  IF wire = <<>> THEN <<>>
  ELSE IF wire[1] = "BS" /\ Len(wire) >= 2
       THEN <<wire[2]>> \o PayloadOf(SubSeq(wire, 3, Len(wire)))
       ELSE <<wire[1]>> \o PayloadOf(Tail(wire))

\* Server::acknowledge: the registered task is aborted and its entry removed
AbortTask(st, sid) ==
  IF sid \in DOMAIN st.ack_tasks
  THEN [st EXCEPT !.tasks = MapRemove(@, st.ack_tasks[sid]),
                  !.ack_tasks = MapRemove(@, sid)]
  ELSE st

\* Server::send_data: a task is spawned for the datagram and its handle is
\* stored under the session id (a handle stored there before is dropped, which
\* leaves its task running)
SpawnTask(st, msg) ==
  [st EXCEPT !.tasks = MapInsert(@, st.next_task,
                                 [sid |-> msg.sid, pos |-> msg.pos,
                                  data |-> msg.data]),
             !.ack_tasks = MapInsert(@, msg.sid, st.next_task),
             !.next_task = @ + 1]

\* the loop over the responses in Server::handle_connection, from index k on
RECURSIVE ProcessResponses(_, _, _)
ProcessResponses(resps, k, st) ==
  IF k > Len(resps) THEN st
  ELSE ProcessResponses(resps, k + 1,
         CASE resps[k].kind = "Ack" -> AbortTask(st, resps[k].sid)
           [] resps[k].kind = "Data" /\ resps[k].type = "data" ->
                SpawnTask(st, resps[k])
           [] OTHER -> st)

LrcpInit ==
  /\ sessions = <<>>
  /\ ack_tasks = <<>>
  /\ tasks = <<>>
  /\ next_task = 1
  /\ rx_stream = <<>>
  /\ tx_stream = <<>>

\* the effect of one handled datagram whose process_request gave out
Handle(out) ==
  LET st == ProcessResponses(out.responses, 1,
              [ack_tasks |-> ack_tasks, tasks |-> tasks, next_task |-> next_task])
  IN /\ st.next_task <= MaxTasks + 1
     /\ sessions' = out.sessions
     /\ ack_tasks' = st.ack_tasks
     /\ tasks' = st.tasks
     /\ next_task' = st.next_task

\* "/connect/SID/"
LConnect(sid) ==
  /\ Handle(ConnectSession(sessions, sid))
  /\ rx_stream' = IF sid \in DOMAIN sessions THEN rx_stream
                  ELSE MapInsert(rx_stream, sid, <<>>)
  /\ tx_stream' = IF sid \in DOMAIN sessions THEN tx_stream
                  ELSE MapInsert(tx_stream, sid, <<>>)
  /\ UNCHANGED nonLrcpVars

\* "/data/SID/POS/DATA/"; a datagram whose DATA does not match the regex matches
\* no regex at all and is dropped without a response
LData(sid, pos, data) ==
  /\ sid \in DOMAIN sessions =>
       sessions[sid].length_received + Len(Unescape(data)) <= MaxRx
  /\ IF MatchesData(data)
     THEN /\ Handle(ReceiveData(sessions, sid, pos, data))
          /\ rx_stream' = IF sid \in DOMAIN sessions
                             /\ sessions[sid].length_received = pos
                          THEN [rx_stream EXCEPT ![sid] = @ \o PayloadOf(data)]
                          ELSE rx_stream
          /\ tx_stream' = IF sid \in DOMAIN sessions
                          THEN [tx_stream EXCEPT ![sid] = @ \o
                                  SubSeq(sessions'[sid].data_to_send,
                                         Len(sessions[sid].data_to_send) + 1,
                                         Len(sessions'[sid].data_to_send))]
                          ELSE tx_stream
     ELSE UNCHANGED lrcpVars
  /\ UNCHANGED nonLrcpVars

\* "/ack/SID/LEN/"
LAck(sid, pos) ==
  /\ Handle(ReceiveAck(sessions, sid, pos))
  /\ UNCHANGED <<rx_stream, tx_stream>>
  /\ UNCHANGED nonLrcpVars

\* "/close/SID/"
LClose(sid) ==
  /\ Handle(CloseSession(sessions, sid))
  /\ rx_stream' = IF sid \in DOMAIN rx_stream THEN MapRemove(rx_stream, sid)
                  ELSE rx_stream
  /\ tx_stream' = IF sid \in DOMAIN tx_stream THEN MapRemove(tx_stream, sid)
                  ELSE tx_stream
  /\ UNCHANGED nonLrcpVars

\* Server::close_session, run by a task whose send_message_loop is over (the
\* 21 sends, 500 ms apart, are not counted: the loop may be over at any time
\* after the spawn): the task registered under the session id is aborted and unregistered, then the
\* session is removed.  When the aborted task is the running task itself, it
\* is cancelled at "state.lock().await" if that suspends (removed = FALSE) and
\* goes on if the lock is free (removed = TRUE).
LTimeout(t, removed) ==
  /\ t \in DOMAIN tasks
  /\ LET sid == tasks[t].sid
         st == AbortTask([ack_tasks |-> ack_tasks, tasks |-> tasks,
                          next_task |-> next_task], sid)
         self_abort == sid \in DOMAIN ack_tasks /\ ack_tasks[sid] = t
     IN /\ removed \/ self_abort
        /\ ack_tasks' = st.ack_tasks
        /\ tasks' = MapRemove(st.tasks, t)
        /\ sessions' = IF removed THEN CloseSession(sessions, sid).sessions
                       ELSE sessions
        /\ rx_stream' = IF removed /\ sid \in DOMAIN rx_stream
                        THEN MapRemove(rx_stream, sid) ELSE rx_stream
        /\ tx_stream' = IF removed /\ sid \in DOMAIN tx_stream
                        THEN MapRemove(tx_stream, sid) ELSE tx_stream
  /\ UNCHANGED next_task
  /\ UNCHANGED nonLrcpVars

LrcpNext ==
  \/ \E sid \in SessionIds : LConnect(sid)
  \/ \E sid \in SessionIds, pos \in DataPositions, data \in WirePayloads :
       LData(sid, pos, data)
  \/ \E sid \in SessionIds, pos \in AckPositions : LAck(sid, pos)
  \/ \E sid \in SessionIds : LClose(sid)
  \/ \E t \in 1..MaxTasks, removed \in BOOLEAN : LTimeout(t, removed)

(***************************************************************************)
(* LRCP: properties.                                                       *)
(***************************************************************************)
\* the bytes of a stream after its last newline
PendingOf(stream) == SplitLines(stream, <<>>)[Len(SplitLines(stream, <<>>))]

\* C2: for every session of the table, acked-len <= sent-len <= acked-len +
\* length(tx-bytes).
C2_SessionCounters ==
  \A sid \in DOMAIN sessions :
    /\ sessions[sid].length_acked <= sessions[sid].length_sent
    /\ sessions[sid].length_sent <=
         sessions[sid].length_acked + Len(sessions[sid].data_to_send)

\* C2 witness: a first slice was acknowledged and the next one is out
C2_Witness ==
  \E sid \in DOMAIN sessions :
    /\ sessions[sid].length_acked > 0
    /\ sessions[sid].length_sent > sessions[sid].length_acked

\* C9: in every reachable state and for every data datagram for an existing
\* session: at pos = rx-len the payload its DATA stands for is appended to the
\* received stream (rx-len grows by its length, the bytes after the last
\* newline are the pending bytes) and the answer is the ack of the new rx-len;
\* at any other pos the session is unchanged and the answer is the ack of the
\* current rx-len.  The stream received so far is the accepted payloads in
\* order.
C9_DataHandling ==
  \A sid \in DOMAIN sessions :
    /\ sessions[sid].length_received = Len(rx_stream[sid])
    /\ sessions[sid].data_received = PendingOf(rx_stream[sid])
    /\ \A pos \in DataPositions : \A data \in WirePayloads :
         MatchesData(data) =>
           LET out == ReceiveData(sessions, sid, pos, data)
               old == sessions[sid]
               new == out.sessions[sid]
           IN IF pos = old.length_received
              THEN /\ new.length_received = pos + Len(PayloadOf(data))
                   /\ new.data_received =
                        PendingOf(rx_stream[sid] \o PayloadOf(data))
                   /\ out.responses[1] = DataAck(sid, new.length_received)
              ELSE /\ out.sessions = sessions
                   /\ out.responses = <<DataAck(sid, old.length_received)>>

\* C9 witness: payloads with a newline and an escaped slash were accepted and
\* left pending bytes behind
C9_Witness ==
  \E sid \in DOMAIN sessions :
    /\ Contains(rx_stream[sid], "SL")
    /\ Contains(rx_stream[sid], "NL")
    /\ sessions[sid].data_received # <<>>
    /\ sessions[sid].length_received = MaxRx

\* C10: rx-len is the total length of the accepted payloads, and while a
\* session stays in the table its three counters never decrease.
C10_Monotonic ==
  /\ [](\A sid \in DOMAIN sessions :
          sessions[sid].length_received = Len(rx_stream[sid]))
  /\ [][\A sid \in DOMAIN sessions \cap DOMAIN sessions' :
          /\ sessions'[sid].length_received >= sessions[sid].length_received
          /\ sessions'[sid].length_sent >= sessions[sid].length_sent
          /\ sessions'[sid].length_acked >= sessions[sid].length_acked]_vars

\* C10 witness: all three counters have advanced
C10_Witness ==
  \E sid \in DOMAIN sessions :
    /\ sessions[sid].length_acked > 0
    /\ sessions[sid].length_sent > sessions[sid].length_acked
    /\ sessions[sid].length_received = MaxRx

\* the task table after Server::handle_connection went through responses
TasksAfter(responses) ==
  ProcessResponses(responses, 1,
    [ack_tasks |-> ack_tasks, tasks |-> tasks, next_task |-> next_task])

\* C11: an ack with len <= acked-len for an existing session is ignored: the
\* session table is unchanged, no data or close datagram is sent in response,
\* and the retransmit task of the session, if any, keeps running.
C11_StaleAckIgnored ==
  \A sid \in DOMAIN sessions : \A pos \in AckPositions :
    pos <= sessions[sid].length_acked =>
      LET out == ReceiveAck(sessions, sid, pos) IN
        /\ out.sessions = sessions
        /\ \A k \in 1..Len(out.responses) : out.responses[k].kind = "Ack"
        /\ TasksAfter(out.responses).tasks = tasks
        /\ TasksAfter(out.responses).ack_tasks = ack_tasks

\* C12: an ack with len > sent-len closes the session: /close/SID/ is sent
\* and the session is removed from the table, so that a later data or ack
\* datagram for that SID is answered with /close/SID/.
C12_AckBeyondSentCloses ==
  \A sid \in DOMAIN sessions : \A pos \in AckPositions :
    pos > sessions[sid].length_sent =>
      LET out == ReceiveAck(sessions, sid, pos) IN
        /\ \E k \in 1..Len(out.responses) : out.responses[k] = CloseMsg(sid)
        /\ sid \notin DOMAIN out.sessions
        /\ \A later \in AckPositions :
             ReceiveAck(out.sessions, sid, later).responses = <<CloseMsg(sid)>>

\* every newline-terminated line of stream, reversed and followed by a
\* newline, in order; cur is the line read so far
RECURSIVE ReversedLines(_, _)
ReversedLines(stream, cur) ==
  IF stream = <<>> THEN <<>>
  ELSE IF Head(stream) = "NL"
       THEN Reverse(cur) \o <<"NL">> \o ReversedLines(Tail(stream), <<>>)
       ELSE ReversedLines(Tail(stream), Append(cur, Head(stream)))

\* C14: however the received stream is split across the accepted data
\* datagrams, the bytes ever appended to tx-bytes are the newline-terminated
\* lines of the received stream, each reversed and followed by a newline, in
\* order; the bytes after the last newline are pending and gave no output.
C14_LineReverser ==
  \A sid \in DOMAIN sessions :
    /\ tx_stream[sid] = ReversedLines(rx_stream[sid], <<>>)
    /\ sessions[sid].data_received = PendingOf(rx_stream[sid])
    /\ \E k \in 0..Len(tx_stream[sid]) :
         sessions[sid].data_to_send =
           SubSeq(tx_stream[sid], k + 1, Len(tx_stream[sid]))

\* C14 happens: a line came in two datagrams, the second of which completed it
C14_Witness ==
  \E sid \in DOMAIN sessions :
    /\ rx_stream[sid] = <<"a", "b", "NL">>
    /\ tx_stream[sid] = <<"b", "a", "NL">>
    /\ sessions[sid].data_received = <<>>

\* C30: an ack below sent-len for a session with an unacknowledged slice (a
\* stale, duplicated or partial ack) leaves a retransmit task running that
\* resends this slice.
C30_RetransmissionPersists ==
  \A sid \in DOMAIN sessions : \A pos \in AckPositions :
    (sessions[sid].length_acked < sessions[sid].length_sent
       /\ pos < sessions[sid].length_sent) =>
      LET out == ReceiveAck(sessions, sid, pos)
          st == TasksAfter(out.responses)
      IN /\ sid \in DOMAIN out.sessions
         /\ \E t \in DOMAIN st.tasks :
              /\ st.tasks[t].sid = sid
              /\ st.tasks[t].pos = out.sessions[sid].length_acked

\* C31: every running retransmit task belongs to a session that is open.
C31_NoTaskAfterClose ==
  \A t \in DOMAIN tasks : tasks[t].sid \in DOMAIN sessions

\* the /data/ messages among the responses
DataMsgs(responses) ==
  {responses[k] : k \in {n \in 1..Len(responses) :
                           responses[n].kind = "Data" /\ responses[n].type = "data"}}

\* a /data/ message is at acked-len of the session and carries its bytes from
\* acked-len to sent-len
IsCurrentSlice(msg, session) ==
  /\ msg.pos = session.length_acked
  /\ msg.data = Escape(SubSeq(session.data_to_send, 1,
                              session.length_sent - session.length_acked))

\* C37: every /data/ message that receive_data and receive_ack answer with is
\* at acked-len and carries the bytes from acked-len to sent-len.
C37_DataFrameContent ==
  \A sid \in DOMAIN sessions :
    /\ \A pos \in AckPositions :
         LET out == ReceiveAck(sessions, sid, pos)
         IN \A msg \in DataMsgs(out.responses) :
              IsCurrentSlice(msg, out.sessions[sid])
    /\ \A pos \in DataPositions, data \in WirePayloads :
         (MatchesData(data) /\ Len(Unescape(data)) <= MaxRx) =>
           LET out == ReceiveData(sessions, sid, pos, data)
           IN \A msg \in DataMsgs(out.responses) :
                IsCurrentSlice(msg, out.sessions[sid])

(***************************************************************************)
(* LRCP: the lengths of the /data/ datagrams, with the numbers of the code *)
(* (SpecFrames).  A string is kept as its runs of equal bytes, <<[ch, n]>>,*)
(* so that strings of a thousand bytes stay small states.                  *)
(***************************************************************************)
\* the 950 of Session::get_message
SliceBytes == 950

\* the receive buffer of run_udp: a longer datagram does not arrive whole
UdpBufferBytes == 1024

\* bound: the bytes a session accepts
MaxFrameBytes == 1300

Run(ch, n) == [ch |-> ch, n |-> n]

\* str.len()
RECURSIVE RunsLen(_)
RunsLen(runs) ==
  IF runs = <<>> THEN 0 ELSE Head(runs).n + RunsLen(Tail(runs))

\* String::push_str / extend, for one run of bytes
RunsPush(runs, run) ==
  IF run.n = 0 THEN runs
  ELSE IF runs # <<>> /\ runs[Len(runs)].ch = run.ch
       THEN [runs EXCEPT ![Len(runs)].n = @ + run.n]
       ELSE Append(runs, run)

\* String::push_str / extend
RECURSIVE RunsExtend(_, _)
RunsExtend(runs, more) ==
  IF more = <<>> THEN runs
  ELSE RunsExtend(RunsPush(runs, Head(more)), Tail(more))

\* chars().rev()
RunsRev(runs) == [k \in 1..Len(runs) |-> runs[Len(runs) + 1 - k]]

\* &s[..len]
RECURSIVE RunsTake(_, _)
RunsTake(runs, len) ==
  IF len = 0 \/ runs = <<>> THEN <<>>
  ELSE IF Head(runs).n <= len
       THEN <<Head(runs)>> \o RunsTake(Tail(runs), len - Head(runs).n)
       ELSE <<Run(Head(runs).ch, len)>>

\* drain(..len)
RECURSIVE RunsDrain(_, _)
RunsDrain(runs, len) ==
  IF len = 0 \/ runs = <<>> THEN runs
  ELSE IF Head(runs).n <= len
       THEN RunsDrain(Tail(runs), len - Head(runs).n)
       ELSE <<Run(Head(runs).ch, Head(runs).n - len)>> \o Tail(runs)

\* the length of ServerState::escape(data): each backslash and each slash
\* becomes two bytes
RECURSIVE EscapedLen(_)
EscapedLen(runs) ==
  IF runs = <<>> THEN 0
  ELSE (IF Head(runs).ch \in {"BS", "SL"} THEN 2 * Head(runs).n ELSE Head(runs).n)
       + EscapedLen(Tail(runs))

\* the length of a number printed by format!("{}")
RECURSIVE Digits(_)
Digits(n) == IF n < 10 THEN 1 ELSE 1 + Digits(n \div 10)

\* the length of format!("/data/{}/{}/{}/", sid, pos, escape(data))
DataFrameLen(sid, pos, data) ==
  6 + Digits(sid) + 1 + Digits(pos) + 1 + EscapedLen(data) + 1

\* Session::push for a payload that is a run of bytes, followed by one newline
\* if newline is TRUE: lines is then <<body, "">>, the loop of lines 48-51 is
\* empty and nothing stays pending
FramePush(session, body, newline) ==
  IF ~newline
  THEN [session EXCEPT !.length_received = @ + body.n,
                       !.data_received = RunsPush(@, body)]
  ELSE [session EXCEPT
          !.length_received = @ + body.n + 1,
          !.data_to_send =
             RunsPush(RunsExtend(RunsPush(@, body), RunsRev(session.data_received)),
                      Run("NL", 1)),
          !.data_received = <<>>]

\* Session::get_message; <<>> stands for None
FrameGetMessage(session) == RunsTake(session.data_to_send, SliceBytes)

\* Session::acknowledge
FrameAcknowledge(session) ==
  [session EXCEPT
     !.data_to_send = RunsDrain(@, session.length_sent - session.length_acked),
     !.length_acked = session.length_sent]

NoFrame == [sid |-> 0, pos |-> 0, data |-> <<>>]

\* the /data/ message for the next slice, and the session once it is counted
\* as sent (receive_data 149-160, receive_ack 174-185)
FrameSendNext(sid, session) ==
  IF FrameGetMessage(session) = <<>>
  THEN [session |-> session, frame |-> NoFrame]
  ELSE [session |-> [session EXCEPT
                       !.length_sent = @ + RunsLen(FrameGetMessage(session))],
        frame |-> [sid |-> sid, pos |-> session.length_acked,
                   data |-> FrameGetMessage(session)]]

FrameSessionIds == {1}
FrameBodies == {Run(ch, n) : ch \in {"a", "SL"}, n \in {300, 500}}

FrameInit ==
  /\ frame_sessions = <<>>
  /\ frame_sent = NoFrame

\* /connect/SID/
FConnect(sid) ==
  /\ frame_sessions' =
       IF sid \in DOMAIN frame_sessions THEN frame_sessions
       ELSE MapInsert(frame_sessions, sid,
              [data_received |-> <<>>, data_to_send |-> <<>>,
               length_received |-> 0, length_sent |-> 0, length_acked |-> 0])
  /\ UNCHANGED frame_sent
  /\ UNCHANGED nonFrameVars

\* /data/SID/POS/DATA/ at the position the session expects, DATA being the
\* escaped body and a newline if newline is TRUE
FData(sid, body, newline) ==
  /\ sid \in DOMAIN frame_sessions
  /\ LET session == frame_sessions[sid]
         size == body.n + (IF newline THEN 1 ELSE 0)
         wire == IF newline THEN <<body, Run("NL", 1)>> ELSE <<body>>
         pushed == FramePush(session, body, newline)
         next == IF pushed.length_acked = pushed.length_sent
                 THEN FrameSendNext(sid, pushed)
                 ELSE [session |-> pushed, frame |-> NoFrame]
     IN /\ session.length_received + size <= MaxFrameBytes
        /\ DataFrameLen(sid, session.length_received, wire) <= UdpBufferBytes
        /\ frame_sessions' = [frame_sessions EXCEPT ![sid] = next.session]
        /\ frame_sent' = IF next.frame = NoFrame THEN frame_sent ELSE next.frame
  /\ UNCHANGED nonFrameVars

\* the positions a peer acknowledges, relative to the session's counters
FrameAcks == {"acked", "before_sent", "sent", "beyond_sent"}

FrameAckPos(session, which) ==
  CASE which = "acked" -> session.length_acked
    [] which = "before_sent" -> session.length_sent - 1
    [] which = "sent" -> session.length_sent
    [] which = "beyond_sent" -> session.length_sent + 1

\* /ack/SID/POS/
FAck(sid, which) ==
  /\ sid \in DOMAIN frame_sessions
  /\ FrameAckPos(frame_sessions[sid], which) >= 0
  /\ LET session == frame_sessions[sid]
         pos == FrameAckPos(session, which)
     IN
       IF pos < session.length_acked
       THEN UNCHANGED <<frame_sessions, frame_sent>>
       ELSE IF pos = session.length_sent
       THEN LET next == FrameSendNext(sid, FrameAcknowledge(session)) IN
              /\ frame_sessions' = [frame_sessions EXCEPT ![sid] = next.session]
              /\ frame_sent' = IF next.frame = NoFrame THEN frame_sent
                               ELSE next.frame
       ELSE IF pos > session.length_sent
       THEN UNCHANGED <<frame_sessions, frame_sent>>
       ELSE /\ frame_sent' = [sid |-> sid, pos |-> session.length_acked,
                              data |-> FrameGetMessage(session)]
            /\ UNCHANGED frame_sessions
  /\ UNCHANGED nonFrameVars

\* /close/SID/
FClose(sid) ==
  /\ sid \in DOMAIN frame_sessions
  /\ frame_sessions' = MapRemove(frame_sessions, sid)
  /\ UNCHANGED frame_sent
  /\ UNCHANGED nonFrameVars

FrameNext ==
  \/ \E sid \in FrameSessionIds : FConnect(sid)
  \/ \E sid \in FrameSessionIds, body \in FrameBodies, newline \in BOOLEAN :
       FData(sid, body, newline)
  \/ \E sid \in FrameSessionIds, which \in FrameAcks : FAck(sid, which)
  \/ \E sid \in FrameSessionIds : FClose(sid)

\* C13: every /data/ datagram the server sends is at most 1000 bytes long,
\* header and escaped payload together.
C13_DatagramSize ==
  frame_sent # NoFrame =>
    DataFrameLen(frame_sent.sid, frame_sent.pos, frame_sent.data) <= 1000

(***************************************************************************)
(* Speed daemon (server_06.rs): ServerState.                               *)
(***************************************************************************)
\* bounds of the speed daemon model
MaxConns == 3
MaxObs == 4
MaxHeartbeats == 1

SecondsPerDay == 86400
U16Max == 65535

ConnIds == 1..MaxConns
Plates == {"P1"}
\* (road, mile, limit) of the IAmCamera messages
CameraConfigs == {[road |-> 1, mile |-> m, limit |-> 60] : m \in {0, 2}}
\* the roads of the IAmDispatcher messages
DispatcherRoads == {<<1>>, <<2>>}
\* the Plate messages follow one car per plate, which is at mile 0 at 86300 s,
\* at mile 2 at 86390 s (80 mph, within day 0), back at mile 0 at 86410 s
\* (360 mph, from day 0 to day 1) and at mile 2 at 86415 s (1440 mph, within
\* day 1); from the first to the last sighting it makes 63 mph, from the first
\* to the third and from the second to the last 0 mph.  Cameras report the
\* sightings at their mile in any order and any number of times.
Sightings == {[mile |-> 0, timestamp |-> 86300], [mile |-> 2, timestamp |-> 86390],
              [mile |-> 0, timestamp |-> 86410], [mile |-> 2, timestamp |-> 86415]}
Timestamps == {s.timestamp : s \in Sightings}
\* the intervals of the WantHeartbeat messages
Intervals == {0, 10}

AbsDiff(a, b) == IF a < b THEN b - a ELSE a - b

\* ServerState::compute_speed: (3600 * dist / time).round() as u16; the cast
\* saturates, and maps NaN (0/0) to 0
ComputeSpeed(obs1, obs2) ==
  LET dist == AbsDiff(obs1.mile, obs2.mile)
      time == AbsDiff(obs1.timestamp, obs2.timestamp)
  IN IF time = 0 THEN (IF dist = 0 THEN 0 ELSE U16Max)
     ELSE Min((2 * 3600 * dist + time) \div (2 * time), U16Max)

\* ServerState::has_client
HasClient(id) ==
  \/ \E k \in 1..Len(cameras) : cameras[k].id = id
  \/ \E k \in 1..Len(dispatchers) : dispatchers[k].id = id

\* ServerState::get_dispatcher; -1 stands for None
GetDispatcher(ds, road) ==
  IF \E k \in 1..Len(ds) : Contains(ds[k].roads, road)
  THEN ds[CHOOSE k \in 1..Len(ds) :
            /\ Contains(ds[k].roads, road)
            /\ \A m \in 1..(k - 1) : ~Contains(ds[m].roads, road)].id
  ELSE -1

DayRange_StartOnly(d1, d2) == <<d1>>

\* the days start_day..=end_day as a Vec
RECURSIVE DayRange(_, _)
DayRange(d1, d2) == IF d1 > d2 THEN <<>> ELSE <<d1>> \o DayRange(d1 + 1, d2)

\* "days.iter().any(|day| (start_day..=end_day).contains(&day))"
AnyDayIn(days, d1, d2) == \E k \in 1..Len(days) : d1 <= days[k] /\ days[k] <= d2

\* ServerState::generate_tickets on st = (ticket_sent, ticket_queue, tickets,
\* built, panicked, overflowed): tickets are the messages returned so far by
\* the calls of one read_plate, built every ticket constructed.  "100 * speed"
\* overflows u16 above 655: a build with overflow checks panics there, one
\* without wraps.
GenerateTickets(st, obs1, obs2, speed, ds, checks) ==
  LET start_ts == Min(obs1.timestamp, obs2.timestamp)
      end_ts == IF obs1.timestamp > obs2.timestamp THEN obs1.timestamp
                ELSE obs2.timestamp
      start_day == start_ts \div SecondsPerDay
      end_day == end_ts \div SecondsPerDay
      sent == st.ticket_sent
  IN IF obs1.plate \in DOMAIN sent /\ AnyDayIn(sent[obs1.plate], start_day, end_day)
     THEN st
     ELSE LET marked == MapInsert(sent, obs1.plate,
                          (IF obs1.plate \in DOMAIN sent THEN sent[obs1.plate]
                           ELSE <<>>) \o DayRange(start_day, end_day))
              dispatcher == GetDispatcher(ds, obs1.road)
              ticket == [recipient |-> dispatcher,
                         plate |-> obs1.plate,
                         road |-> obs1.road,
                         mile1 |-> IF obs1.timestamp < obs2.timestamp
                                   THEN obs1.mile ELSE obs2.mile,
                         timestamp1 |-> start_ts,
                         mile2 |-> IF obs1.timestamp < obs2.timestamp
                                   THEN obs2.mile ELSE obs1.mile,
                         timestamp2 |-> end_ts,
                         speed |-> (100 * speed) % (U16Max + 1)]
              over == 100 * speed > U16Max
          IN IF over /\ checks
             THEN [st EXCEPT !.ticket_sent = marked, !.panicked = TRUE,
                             !.overflowed = TRUE]
             ELSE IF dispatcher # -1
             THEN [st EXCEPT !.ticket_sent = marked,
                             !.tickets = Append(@, ticket),
                             !.built = Append(@, ticket),
                             !.overflowed = @ \/ over]
             ELSE [st EXCEPT !.ticket_sent = marked,
                             !.ticket_queue = Append(@, ticket),
                             !.built = Append(@, ticket),
                             !.overflowed = @ \/ over]

\* the loop of ServerState::read_plate over relevant_obs, from index k on
RECURSIVE ReadPlateLoop(_, _, _, _, _, _, _)
ReadPlateLoop(st, observation, relevant_obs, k, speed_limit, ds, checks) ==
  IF k > Len(relevant_obs) \/ st.panicked THEN st
  ELSE ReadPlateLoop(
         IF ComputeSpeed(observation, relevant_obs[k]) > speed_limit
         THEN GenerateTickets(st, observation, relevant_obs[k],
                              ComputeSpeed(observation, relevant_obs[k]), ds,
                              checks)
         ELSE st,
         observation, relevant_obs, k + 1, speed_limit, ds, checks)

\* ServerState::read_plate by the camera record of the client
ReadPlate(camera, plate, timestamp, checks) ==
  LET observation == [plate |-> plate, timestamp |-> timestamp,
                      road |-> camera.road, mile |-> camera.mile]
      relevant_obs == SelectSeq(observations,
                        LAMBDA o : o.plate = plate /\ o.road = camera.road)
  IN ReadPlateLoop([ticket_sent |-> ticket_sent, ticket_queue |-> ticket_queue,
                    tickets |-> <<>>, built |-> <<>>, panicked |-> FALSE,
                    overflowed |-> FALSE],
                   observation, relevant_obs, 1, camera.limit, dispatchers, checks)

\* ServerState::remove_client on one of the three vectors
RemoveId(vec, id) ==
  IF PositionOfId(vec, id) = 0 THEN vec
  ELSE SeqSwapRemove(vec, PositionOfId(vec, id))

\* ServerState::remove_client on have_heartbeats, a vector of ids
SeqSwapRemoveValue(vec, id) ==
  IF \E k \in 1..Len(vec) : vec[k] = id
  THEN SeqSwapRemove(vec, CHOOSE k \in 1..Len(vec) :
                            vec[k] = id /\ \A m \in 1..(k - 1) : vec[m] # id)
  ELSE vec

\* Server::get_client_id: the least id that is no key of writers
LeastFreeId(keys) == CHOOSE i \in 0..MaxConns : i \notin keys /\ \A j \in 0..(i - 1) : j \in keys

SpeedInit ==
  /\ writers = <<>>
  /\ cameras = <<>>
  /\ dispatchers = <<>>
  /\ observations = <<>>
  /\ have_heartbeats = <<>>
  /\ ticket_queue = <<>>
  /\ ticket_sent = <<>>
  /\ spc = [c \in ConnIds |-> "accepted"]
  /\ client_id = [c \in ConnIds |-> -1]
  /\ message_list = [c \in ConnIds |-> <<>>]
  /\ heartbeats = {}
  /\ debug_build = "unknown"
  /\ generated = <<>>
  /\ declared = {}

(***************************************************************************)
(* Speed daemon: Server and handle_connection.  A connection is "accepted" *)
(* before get_client_id, "identified" between get_client_id and            *)
(* add_client, "reading" in process_request, "processing" in the loop over *)
(* message_list, and "closed" or "panicked" at its end.                    *)
(***************************************************************************)
\* Server::get_client_id
SGetClientId(c) ==
  /\ spc[c] = "accepted"
  \* connections are numbered in the order their handlers start
  /\ \A d \in 1..(c - 1) : spc[d] # "accepted"
  /\ client_id' = [client_id EXCEPT ![c] = LeastFreeId(DOMAIN writers)]
  /\ spc' = [spc EXCEPT ![c] = "identified"]
  /\ UNCHANGED <<writers, cameras, dispatchers, observations, have_heartbeats,
                 ticket_queue, ticket_sent, message_list, heartbeats,
                 debug_build, generated, declared>>
  /\ UNCHANGED nonSpeedVars

\* Server::add_client
SAddClient(c) ==
  /\ spc[c] = "identified"
  /\ writers' = MapInsert(writers, client_id[c], c)
  /\ spc' = [spc EXCEPT ![c] = "reading"]
  /\ UNCHANGED <<cameras, dispatchers, observations, have_heartbeats,
                 ticket_queue, ticket_sent, client_id, message_list, heartbeats,
                 debug_build, generated, declared>>
  /\ UNCHANGED nonSpeedVars

\* the Ok arm of handle_connection: the handler goes on with the message list
Continue(c, msgs) ==
  /\ message_list' = [message_list EXCEPT ![c] = msgs]
  /\ spc' = [spc EXCEPT ![c] = IF msgs = <<>> THEN "reading" ELSE "processing"]

\* the Err arm of handle_connection: the error is sent to the client, the loop
\* breaks and ServerState::remove_client runs
Fail(c) ==
  /\ cameras' = RemoveId(cameras, client_id[c])
  /\ dispatchers' = RemoveId(dispatchers, client_id[c])
  /\ have_heartbeats' = SeqSwapRemoveValue(have_heartbeats, client_id[c])
  /\ spc' = [spc EXCEPT ![c] = "closed"]
  /\ declared' = declared \ {c}
  /\ UNCHANGED <<writers, observations, ticket_queue, ticket_sent, client_id,
                 message_list, heartbeats, debug_build, generated>>

\* process_request, 0x80: ServerState::add_camera
SCamera(c, cfg) ==
  /\ spc[c] = "reading"
  /\ IF HasClient(client_id[c]) THEN Fail(c)
     ELSE /\ cameras' = Append(cameras, [id |-> client_id[c], road |-> cfg.road,
                                         mile |-> cfg.mile, limit |-> cfg.limit])
          /\ Continue(c, <<>>)
          /\ declared' = declared \cup {c}
          /\ UNCHANGED <<writers, dispatchers, observations, have_heartbeats,
                         ticket_queue, ticket_sent, client_id, heartbeats,
                         debug_build, generated>>
  /\ UNCHANGED nonSpeedVars

\* process_request, 0x81: ServerState::add_dispatcher
SDispatcher(c, roads) ==
  /\ spc[c] = "reading"
  /\ IF HasClient(client_id[c]) THEN Fail(c)
     ELSE /\ dispatchers' = Append(dispatchers, [id |-> client_id[c], roads |-> roads])
          /\ ticket_queue' = SelectSeq(ticket_queue, LAMBDA t : ~Contains(roads, t.road))
          /\ Continue(c, [k \in 1..Len(SelectSeq(ticket_queue,
                                         LAMBDA t : Contains(roads, t.road))) |->
                            [SelectSeq(ticket_queue, LAMBDA t : Contains(roads, t.road))[k]
                               EXCEPT !.recipient = client_id[c]]])
          /\ declared' = declared \cup {c}
          /\ UNCHANGED <<writers, cameras, observations, have_heartbeats,
                         ticket_sent, client_id, heartbeats, debug_build, generated>>
  /\ UNCHANGED nonSpeedVars

\* process_request, 0x20: ServerState::read_plate; checks tells whether the
\* build checks overflow, which is fixed once a run depended on it
SPlate(c, plate, timestamp, checks) ==
  /\ spc[c] = "reading"
  /\ debug_build \in {"unknown", IF checks THEN "on" ELSE "off"}
  /\ IF PositionOfId(cameras, client_id[c]) = 0 THEN Fail(c)
     ELSE /\ [mile |-> cameras[PositionOfId(cameras, client_id[c])].mile,
              timestamp |-> timestamp] \in Sightings
          /\ LET st == ReadPlate(cameras[PositionOfId(cameras, client_id[c])],
                                 plate, timestamp, checks)
                 camera == cameras[PositionOfId(cameras, client_id[c])]
             IN /\ Len(observations) < MaxObs
                /\ observations' = Append(observations,
                                     [plate |-> plate, timestamp |-> timestamp,
                                      road |-> camera.road, mile |-> camera.mile])
                /\ ticket_sent' = st.ticket_sent
                /\ ticket_queue' = st.ticket_queue
                /\ generated' = generated \o st.built
                /\ IF st.panicked
                   THEN /\ spc' = [spc EXCEPT ![c] = "panicked"]
                        /\ UNCHANGED message_list
                   ELSE Continue(c, st.tickets)
                /\ debug_build' = IF st.overflowed
                                   THEN (IF checks THEN "on" ELSE "off")
                                   ELSE debug_build
                /\ UNCHANGED <<writers, cameras, dispatchers, have_heartbeats,
                               client_id, heartbeats, declared>>
  /\ UNCHANGED nonSpeedVars

\* process_request, 0x40: ServerState::mark_heartbeat
SWantHeartbeat(c, interval) ==
  /\ spc[c] = "reading"
  /\ IF Contains(have_heartbeats, client_id[c]) THEN Fail(c)
     ELSE /\ Len(have_heartbeats) < MaxHeartbeats
          /\ have_heartbeats' = Append(have_heartbeats, client_id[c])
          /\ Continue(c, <<[recipient |-> -1, interval |-> interval]>>)
          /\ UNCHANGED <<writers, cameras, dispatchers, observations, ticket_queue,
                         ticket_sent, client_id, heartbeats, debug_build, generated,
                         declared>>
  /\ UNCHANGED nonSpeedVars

\* process_request when the peer closed the connection, or sent a message of
\* an invalid type or one that does not parse
SBadRequest(c) ==
  /\ spc[c] = "reading"
  /\ Fail(c)
  /\ UNCHANGED nonSpeedVars

\* Server::process_msg on the next message of the list
SProcessMsg(c) ==
  /\ spc[c] = "processing"
  /\ LET msg == Head(message_list[c])
     IN heartbeats' = IF "interval" \in DOMAIN msg /\ msg.interval > 0
                      THEN heartbeats \cup {c} ELSE heartbeats
  /\ Continue(c, Tail(message_list[c]))
  /\ UNCHANGED <<writers, cameras, dispatchers, observations, have_heartbeats,
                 ticket_queue, ticket_sent, client_id, debug_build, generated,
                 declared>>
  /\ UNCHANGED nonSpeedVars

\* The speed daemon with clients that ask for no heartbeat: mark_heartbeat
\* writes have_heartbeats only, which no other request reads.
TicketNext ==
  \/ \E c \in ConnIds : SGetClientId(c)
  \/ \E c \in ConnIds : SAddClient(c)
  \/ \E c \in ConnIds, cfg \in CameraConfigs : SCamera(c, cfg)
  \/ \E c \in ConnIds, roads \in DispatcherRoads : SDispatcher(c, roads)
  \/ \E c \in ConnIds, plate \in Plates, timestamp \in Timestamps,
          checks \in BOOLEAN :
       SPlate(c, plate, timestamp, checks)
  \/ \E c \in ConnIds : SBadRequest(c)
  \/ \E c \in ConnIds : SProcessMsg(c)

\* The speed daemon with every request.
SpeedNext ==
  \/ TicketNext
  \/ \E c \in ConnIds, interval \in Intervals : SWantHeartbeat(c, interval)

\* The speed daemon with clients that ask for heartbeats only.
HeartbeatNext ==
  \/ \E c \in ConnIds : SGetClientId(c)
  \/ \E c \in ConnIds : SAddClient(c)
  \/ \E c \in ConnIds, interval \in Intervals : SWantHeartbeat(c, interval)
  \/ \E c \in ConnIds : SBadRequest(c)
  \/ \E c \in ConnIds : SProcessMsg(c)

(***************************************************************************)
(* Speed daemon: properties.                                               *)
(***************************************************************************)
\* the inclusive day range of a ticket
FirstDay(ticket) == ticket.timestamp1 \div SecondsPerDay
LastDay(ticket) == ticket.timestamp2 \div SecondsPerDay

DaysDisjoint(t1, t2) == LastDay(t1) < FirstDay(t2) \/ LastDay(t2) < FirstDay(t1)

\* C3: for every plate, the inclusive day ranges
\* [floor(timestamp1 / 86400), floor(timestamp2 / 86400)] of all the tickets
\* ever generated, sent to a dispatcher or queued, are pairwise disjoint.
C3_TicketDaysDisjoint ==
  \A i, j \in 1..Len(generated) :
    (i < j /\ generated[i].plate = generated[j].plate)
      => DaysDisjoint(generated[i], generated[j])

\* C3 happens: two tickets were generated for one plate, one returned for a
\* dispatcher and one queued, after a pair of observations above the limit
\* was refused a ticket because one of its days was taken.
C3_Witness ==
  /\ \E i, j \in 1..Len(generated) :
       /\ i < j
       /\ generated[i].plate = generated[j].plate
       /\ (generated[i].recipient = -1) # (generated[j].recipient = -1)
  /\ \E k, m \in 1..Len(observations) :
       /\ k < m
       /\ observations[k].plate = observations[m].plate
       /\ observations[k].road = observations[m].road
       /\ ComputeSpeed(observations[k], observations[m]) > 60
       /\ \A i \in 1..Len(generated) :
            {generated[i].timestamp1, generated[i].timestamp2}
              # {observations[k].timestamp, observations[m].timestamp}

\* the connections whose handle_connection is in its loop
Running == {c \in ConnIds : spc[c] \in {"reading", "processing"}}

\* C15: a client whose handler runs has a camera or dispatcher record exactly
\* if its IAmCamera or IAmDispatcher was accepted, so that its first
\* declaration is accepted, every later one is an error, and its Plate is an
\* error exactly if it is no camera; the Error of a client is written to its
\* own connection; and a client whose handler ended on an error is
\* disconnected: the server holds no half of its connection any more.
C15_RoleErrors ==
  /\ \A c \in Running :
       /\ c \in declared <=> HasClient(client_id[c])
       /\ writers[client_id[c]] = c
  /\ \A c \in ConnIds :
       spc[c] = "closed" => \A id \in DOMAIN writers : writers[id] # c

\* C16: a ticket stays in the queue only while no registered dispatcher serves
\* its road, and the tickets flushed to a registering dispatcher, which its
\* handler is about to send, are written to the connection of that dispatcher.
C16_TicketQueue ==
  /\ \A k \in 1..Len(ticket_queue) :
       /\ ticket_queue[k].recipient = -1
       /\ GetDispatcher(dispatchers, ticket_queue[k].road) = -1
  /\ \A c \in Running :
       (c \in declared /\ PositionOfId(dispatchers, client_id[c]) # 0) =>
         \A k \in 1..Len(message_list[c]) :
           /\ message_list[c][k].recipient = client_id[c]
           /\ writers[message_list[c][k].recipient] = c

\* C17: the speed field of every ticket is 100 times the rounded average speed
\* between its two observations.
C17_SpeedField ==
  \A i \in 1..Len(generated) :
    generated[i].speed =
      100 * ComputeSpeed([mile |-> generated[i].mile1,
                          timestamp |-> generated[i].timestamp1],
                         [mile |-> generated[i].mile2,
                          timestamp |-> generated[i].timestamp2])

\* C38: a connection whose handler has ended has no running send_heartbeat
\* task, and no entry of writers holds its write half.
C38_StopsAfterHandler ==
  \A c \in ConnIds :
    spc[c] = "closed" =>
      /\ c \notin heartbeats
      /\ \A id \in DOMAIN writers : writers[id] # c

\* C36: two connections never have the same client id.
C36_UniqueClientIds ==
  \A c, d \in ConnIds :
    (c # d /\ client_id[c] # -1 /\ client_id[d] # -1)
      => client_id[c] # client_id[d]

\* C35: a ticket that generate_tickets returned for a dispatcher, and that the
\* handler of the camera has still to write, is addressed to a dispatcher
\* that is registered and serves the road of the ticket.
C35_TicketReachesDispatcher ==
  \A c \in Running :
    \A k \in 1..Len(message_list[c]) :
      LET ticket == message_list[c][k]
      IN "road" \in DOMAIN ticket =>
           \E n \in 1..Len(dispatchers) :
             /\ dispatchers[n].id = ticket.recipient
             /\ Contains(dispatchers[n].roads, ticket.road)

(***************************************************************************)
(* Budget chat (server_03.rs): one thread per connection, the room behind  *)
(* a std Mutex (SpecChat).  A name is a sequence of characters, a stream   *)
(* is named by its connection.  A handler is "accepted" before the welcome *)
(* line, "naming" while it reads the name, "joined" in its message loop,   *)
(* and "returned" or "panicked" at its end.                                *)
(***************************************************************************)
\* bound: the connections of the chat model
MaxChatters == 3

ChatIds == 1..MaxChatters
Alphanumeric == {"a", "b"}
\* the first lines clients send
Names == {<<>>, <<"a">>, <<"b">>, <<"a", "!">>}

\* is_valid
IsValid(name) == \A k \in 1..Len(name) : name[k] \in Alphanumeric

\* State::add_user
AddUser(conns, name, stream) == MapInsert(conns, name, stream)

\* State::remove_user
RemoveUser(conns, name) == MapRemove(conns, name)

\* the keys of connections that welcome_msg joins
Listing(conns) == DOMAIN conns

\* State::broadcast_from, iterating the map in the given order: the streams
\* written to, and whether a write_all failed, which panics on the unwrap
RECURSIVE BroadcastFrom(_, _, _, _)
BroadcastFrom(conns, name, order, bad) ==
  IF order = <<>> THEN [written |-> {}, panicked |-> FALSE]
  ELSE IF Head(order) = name THEN BroadcastFrom(conns, name, Tail(order), bad)
  ELSE IF conns[Head(order)] \in bad THEN [written |-> {}, panicked |-> TRUE]
  ELSE LET rest == BroadcastFrom(conns, name, Tail(order), bad)
       IN [written |-> {conns[Head(order)]} \cup rest.written,
           panicked |-> rest.panicked]

ChatInit ==
  /\ connections = <<>>
  /\ cpc = [c \in ChatIds |-> "accepted"]
  /\ username = [c \in ChatIds |-> <<>>]
  /\ broken = {}
  /\ poisoned = FALSE

\* handle_connection: the welcome line
CWelcome(c) ==
  /\ cpc[c] = "accepted"
  /\ cpc' = [cpc EXCEPT ![c] = IF c \in broken THEN "panicked" ELSE "naming"]
  /\ UNCHANGED <<connections, username, broken, poisoned>>
  /\ UNCHANGED nonChatVars

\* handle_connection: the name is read, and the join runs under the lock
CJoin(c, name, order) ==
  /\ cpc[c] = "naming"
  /\ order \in Orders(DOMAIN AddUser(connections, name, c))
  /\ IF ~IsValid(name)
     THEN /\ cpc' = [cpc EXCEPT ![c] = "returned"]
          /\ UNCHANGED <<connections, username, poisoned>>
     ELSE IF poisoned
     THEN /\ cpc' = [cpc EXCEPT ![c] = "panicked"]
          /\ UNCHANGED <<connections, username, poisoned>>
     ELSE LET added == AddUser(connections, name, c)
              result == BroadcastFrom(added, name, order, broken)
              failed == c \in broken \/ result.panicked
          IN /\ connections' = added
             /\ username' = [username EXCEPT ![c] = name]
             /\ poisoned' = failed
             /\ cpc' = [cpc EXCEPT ![c] = IF failed THEN "panicked" ELSE "joined"]
  /\ UNCHANGED broken
  /\ UNCHANGED nonChatVars

\* handle_connection: the peer closed before it sent a name
CNoName(c) ==
  /\ cpc[c] = "naming"
  /\ cpc' = [cpc EXCEPT ![c] = "returned"]
  /\ UNCHANGED <<connections, username, broken, poisoned>>
  /\ UNCHANGED nonChatVars

\* handle_connection: a line of the message loop
CMessage(c, order) ==
  /\ cpc[c] = "joined"
  /\ order \in Orders(DOMAIN connections)
  /\ IF poisoned
     THEN /\ cpc' = [cpc EXCEPT ![c] = "panicked"]
          /\ UNCHANGED poisoned
     ELSE LET result == BroadcastFrom(connections, username[c], order, broken)
          IN /\ poisoned' = result.panicked
             /\ cpc' = [cpc EXCEPT ![c] = IF result.panicked THEN "panicked"
                                          ELSE "joined"]
  /\ UNCHANGED <<connections, username, broken>>
  /\ UNCHANGED nonChatVars

\* handle_connection: the end of the message loop
CLeave(c, order) ==
  /\ cpc[c] = "joined"
  /\ order \in Orders(DOMAIN RemoveUser(connections, username[c]))
  /\ IF poisoned
     THEN /\ cpc' = [cpc EXCEPT ![c] = "panicked"]
          /\ UNCHANGED <<connections, poisoned>>
     ELSE LET removed == RemoveUser(connections, username[c])
              result == BroadcastFrom(removed, username[c], order, broken)
          IN /\ connections' = removed
             /\ poisoned' = result.panicked
             /\ cpc' = [cpc EXCEPT ![c] = IF result.panicked THEN "panicked"
                                          ELSE "returned"]
  /\ UNCHANGED <<username, broken>>
  /\ UNCHANGED nonChatVars

\* the peer of a connection resets it: from now on a write to it fails
CReset(c) ==
  /\ c \notin broken
  /\ broken' = broken \cup {c}
  /\ UNCHANGED <<connections, cpc, username, poisoned>>
  /\ UNCHANGED nonChatVars

\* the iteration orders of a map of at most MaxChatters names
ChatOrders == UNION {Orders(S) : S \in SUBSET Names}

ChatNext ==
  \/ \E c \in ChatIds : CWelcome(c)
  \/ \E c \in ChatIds, name \in Names, order \in ChatOrders : CJoin(c, name, order)
  \/ \E c \in ChatIds : CNoName(c)
  \/ \E c \in ChatIds, order \in ChatOrders : CMessage(c, order)
  \/ \E c \in ChatIds, order \in ChatOrders : CLeave(c, order)
  \/ \E c \in ChatIds : CReset(c)

(***************************************************************************)
(* Budget chat: properties.                                                *)
(***************************************************************************)
\* the clients that joined and whose handler is in its message loop
Joined == {c \in ChatIds : cpc[c] = "joined"}

\* C18: every name of the room is non-empty and alphanumeric, and every joined
\* client whose handler runs has its own entry, which maps its name to its own
\* stream.
C18_Membership ==
  /\ \A name \in DOMAIN connections : name # <<>> /\ IsValid(name)
  /\ \A c \in Joined :
       /\ username[c] \in DOMAIN connections
       /\ connections[username[c]] = c

\* C19: the listing a newcomer gets never has its own name, and a join, chat or
\* leave notification is written to every user of the room other than its
\* subject, whatever the order of the iteration.
C19_ListingAndNotifications ==
  /\ \A c \in ChatIds, name \in Names :
       (cpc[c] = "naming" /\ IsValid(name) /\ ~poisoned)
         => name \notin Listing(connections)
  /\ \A c \in Joined : \A order \in Orders(DOMAIN connections) :
       ~poisoned =>
         BroadcastFrom(connections, username[c], order, broken).written
           = {connections[n] : n \in DOMAIN connections \ {username[c]}}

\* C20: the hub stays usable: the lock that every join, message and leave
\* takes is never poisoned, and no more handlers ended in a panic than
\* connections failed.
C20_ErrorIsolation ==
  /\ ~poisoned
  /\ Cardinality({c \in ChatIds : cpc[c] = "panicked"}) <= Cardinality(broken)

(***************************************************************************)
(* Version control file store (server_10.rs), SpecFiles.  A path is a      *)
(* sequence of characters, a payload a sequence of bytes.  A handler is    *)
(* "ready" while it reads a command line, "data" while it reads the bytes  *)
(* of a PUT, and "closed" after an illegal method or the end of input.     *)
(***************************************************************************)
\* bounds of the file store model
MaxStoreConns == 2
MaxRevisions == 2

StoreIds == 1..MaxStoreConns
\* the characters is_valid_path accepts
PathChars == {"/", ".", "-", "_", "a", "b"}
\* the path arguments of the requests
Paths == {<<"/", "a">>, <<"/", "a", "/", "b">>, <<"/">>,
          <<"/", "a", "!">>, <<"a">>, <<"/", "/", "a">>}
\* the payloads of the PUT requests: two texts and one that is no text
Payloads == {<<120>>, <<121>>, <<1>>}
\* the revision arguments of GET: -1 stands for one that does not parse
RevisionArgs == {-1, 0, 1, 2, 3}

\* is_valid_path
IsValidPath(path) ==
  /\ path # <<>>
  /\ path[1] = "/"
  /\ \A k \in 1..(Len(path) - 1) : ~(path[k] = "/" /\ path[k + 1] = "/")
  /\ \A k \in 1..Len(path) : path[k] \in PathChars

\* str::split_once('/'): the index of the first '/', 0 for None
SlashIndex(path) ==
  IF \E k \in 1..Len(path) : path[k] = "/"
  THEN CHOOSE k \in 1..Len(path) :
         path[k] = "/" /\ \A m \in 1..(k - 1) : path[m] # "/"
  ELSE 0

\* the index of the first element of a Vec<Dir> or Vec<File> with the name
PositionOfName(vec, name) ==
  IF \E k \in 1..Len(vec) : vec[k].name = name
  THEN CHOOSE k \in 1..Len(vec) :
         vec[k].name = name /\ \A m \in 1..(k - 1) : vec[m].name # name
  ELSE 0

\* Dir::new
NewDir(name) == [name |-> name, subdirs |-> <<>>, files |-> <<>>]

\* mutant of DirPutFile: every PUT appends a revision
RECURSIVE DirPutFile_AlwaysAppends(_, _, _)
DirPutFile_AlwaysAppends(dir, path, data) ==
  IF SlashIndex(path) # 0
  THEN LET dir_name == SubSeq(path, 1, SlashIndex(path) - 1)
           queue == SubSeq(path, SlashIndex(path) + 1, Len(path))
           k == PositionOfName(dir.subdirs, dir_name)
           sub == DirPutFile_AlwaysAppends(
                    IF k # 0 THEN dir.subdirs[k] ELSE NewDir(dir_name), queue, data)
       IN [dir |-> [dir EXCEPT !.subdirs = IF k # 0 THEN [@ EXCEPT ![k] = sub.dir]
                                           ELSE Append(@, sub.dir)],
           revision |-> sub.revision]
  ELSE LET k == PositionOfName(dir.files, path)
       IN IF k # 0
          THEN [dir |-> [dir EXCEPT !.files[k].revisions = Append(@, data)],
                revision |-> Len(dir.files[k].revisions) + 1]
          ELSE [dir |-> [dir EXCEPT !.files =
                           Append(@, [name |-> path, revisions |-> <<data>>])],
                revision |-> 1]

\* mutant of DirPutFile: a new payload replaces the latest revision
RECURSIVE DirPutFile_Overwrites(_, _, _)
DirPutFile_Overwrites(dir, path, data) ==
  IF SlashIndex(path) # 0
  THEN LET dir_name == SubSeq(path, 1, SlashIndex(path) - 1)
           queue == SubSeq(path, SlashIndex(path) + 1, Len(path))
           k == PositionOfName(dir.subdirs, dir_name)
           sub == DirPutFile_Overwrites(
                    IF k # 0 THEN dir.subdirs[k] ELSE NewDir(dir_name), queue, data)
       IN [dir |-> [dir EXCEPT !.subdirs = IF k # 0 THEN [@ EXCEPT ![k] = sub.dir]
                                           ELSE Append(@, sub.dir)],
           revision |-> sub.revision]
  ELSE LET k == PositionOfName(dir.files, path)
       IN IF k # 0
          THEN [dir |-> [dir EXCEPT !.files[k].revisions =
                           [@ EXCEPT ![Len(@)] = data]],
                revision |-> Len(dir.files[k].revisions)]
          ELSE [dir |-> [dir EXCEPT !.files =
                           Append(@, [name |-> path, revisions |-> <<data>>])],
                revision |-> 1]

\* Dir::put_file: the directory after the PUT and the revision it returns
RECURSIVE DirPutFile(_, _, _)
DirPutFile(dir, path, data) ==
  IF SlashIndex(path) # 0
  THEN LET dir_name == SubSeq(path, 1, SlashIndex(path) - 1)
           queue == SubSeq(path, SlashIndex(path) + 1, Len(path))
           k == PositionOfName(dir.subdirs, dir_name)
           sub == DirPutFile(IF k # 0 THEN dir.subdirs[k] ELSE NewDir(dir_name),
                             queue, data)
       IN [dir |-> [dir EXCEPT !.subdirs = IF k # 0 THEN [@ EXCEPT ![k] = sub.dir]
                                           ELSE Append(@, sub.dir)],
           revision |-> sub.revision]
  ELSE LET k == PositionOfName(dir.files, path)
       IN IF k # 0
          THEN IF data # dir.files[k].revisions[Len(dir.files[k].revisions)]
               THEN [dir |-> [dir EXCEPT !.files[k].revisions = Append(@, data)],
                     revision |-> Len(dir.files[k].revisions) + 1]
               ELSE [dir |-> dir, revision |-> Len(dir.files[k].revisions)]
          ELSE [dir |-> [dir EXCEPT !.files =
                           Append(@, [name |-> path, revisions |-> <<data>>])],
                revision |-> 1]

\* Dir::get_file: the revisions of the file, <<>> for None (a file has at
\* least one revision)
RECURSIVE DirGetFile(_, _)
DirGetFile(dir, path) ==
  IF SlashIndex(path) # 0
  THEN LET k == PositionOfName(dir.subdirs, SubSeq(path, 1, SlashIndex(path) - 1))
       IN IF k = 0 THEN <<>>
          ELSE DirGetFile(dir.subdirs[k],
                          SubSeq(path, SlashIndex(path) + 1, Len(path)))
  ELSE IF PositionOfName(dir.files, path) = 0 THEN <<>>
       ELSE dir.files[PositionOfName(dir.files, path)].revisions

\* Dir::get_list: the lines for the subdirectories that no file shares its
\* name with and for the files, as (name, is a DIR line, revision count); the
\* final sort_unstable orders the formatted lines
RECURSIVE DirGetList(_, _)
DirGetList(dir, path) ==
  IF path # <<>>
  THEN LET dir_name == IF SlashIndex(path) # 0
                       THEN SubSeq(path, 1, SlashIndex(path) - 1) ELSE path
           queue == IF SlashIndex(path) # 0
                    THEN SubSeq(path, SlashIndex(path) + 1, Len(path)) ELSE <<>>
           k == PositionOfName(dir.subdirs, dir_name)
       IN IF k = 0 THEN {} ELSE DirGetList(dir.subdirs[k], queue)
  ELSE {[name |-> dir.subdirs[k].name, is_dir |-> TRUE, revision |-> 0] :
          k \in {m \in 1..Len(dir.subdirs) :
                   PositionOfName(dir.files, dir.subdirs[m].name) = 0}}
       \cup {[name |-> dir.files[k].name, is_dir |-> FALSE,
              revision |-> Len(dir.files[k].revisions)] : k \in 1..Len(dir.files)}

\* a response written to the client: its first word, whether READY follows
\* it, and the revision, payload or lines it carries
Answer(status, ready, revision, data, lines) ==
  [status |-> status, ready |-> ready, revision |-> revision, data |-> data,
   lines |-> lines]
\* "READY" alone, which a connection starts with
NoAnswer == Answer("none", TRUE, 0, <<>>, {})
Ok(revision, data, lines) == Answer("OK", TRUE, revision, data, lines)
Err(ready) == Answer("ERR", ready, 0, <<>>, {})

\* ServerState::get_file; args is <<path>> or <<path, revision>>
GetFile(dir, args) ==
  IF ~(Len(args) \in 1..2) THEN Err(TRUE)
  ELSE IF ~IsValidPath(args[1]) THEN Err(FALSE)
  ELSE LET revisions == DirGetFile(dir, Tail(args[1]))
       IN IF revisions = <<>> THEN Err(TRUE)
          ELSE IF Len(args) = 2 /\ ~(args[2] \in 1..Len(revisions)) THEN Err(TRUE)
          ELSE LET revision == IF Len(args) = 2 THEN args[2] ELSE Len(revisions)
               IN Ok(0, revisions[revision], {})

\* ServerState::put_file: TRUE for Read(path, length), else the error
PutFile(args) ==
  IF Len(args) # 2 THEN Err(TRUE)
  ELSE IF ~IsValidPath(args[1]) \/ args[1][Len(args[1])] = "/" THEN Err(FALSE)
  ELSE NoAnswer

\* the bytes put_file_data takes for a text
IsText(data) ==
  \A k \in 1..Len(data) : data[k] \in 32..127 \/ data[k] \in {9, 10, 13}

\* ServerState::put_file_data
PutFileData(dir, path, data) ==
  IF ~IsText(data) THEN [dir |-> dir, answer |-> Err(TRUE)]
  ELSE [dir |-> DirPutFile(dir, Tail(path), data).dir,
        answer |-> Ok(DirPutFile(dir, Tail(path), data).revision, <<>>, {})]

\* ServerState::list_files
ListFiles(dir, dir_name) ==
  IF dir_name = <<>> THEN Err(TRUE)
  ELSE IF ~IsValidPath(dir_name) THEN Err(FALSE)
  ELSE LET name_end == IF dir_name[Len(dir_name)] = "/" /\ Len(dir_name) > 1
                       THEN Len(dir_name) - 1 ELSE Len(dir_name)
       IN Ok(0, <<>>, DirGetList(dir, SubSeq(dir_name, 2, name_end)))

\* the payloads of the PUTs that changed the file at a path
StoredOf(path) == IF path \in DOMAIN stored THEN stored[path] ELSE <<>>

\* what the model keeps of a response written for a verb
Written(verb, a) ==
  [verb |-> verb, status |-> a.status, ready |-> a.ready,
   revision |-> a.revision]

StoreInit ==
  /\ root = NewDir(<<>>)
  /\ store_pc = [c \in StoreIds |-> "ready"]
  /\ store_read = [c \in StoreIds |-> <<>>]
  /\ answer = [c \in StoreIds |-> Written("none", NoAnswer)]
  /\ stored = <<>>

\* a response is written and the handler reads the next command
Respond(c, verb, a) ==
  /\ answer' = [answer EXCEPT ![c] = Written(verb, a)]
  /\ UNCHANGED <<root, store_pc, store_read, stored>>

\* "HELP"
StoreHelp(c) ==
  /\ store_pc[c] = "ready"
  /\ Respond(c, "HELP", Ok(0, <<>>, {}))
  /\ UNCHANGED nonStoreVars

\* "GET file [revision]"
StoreGet(c, args) ==
  /\ store_pc[c] = "ready"
  /\ Respond(c, "GET", GetFile(root, args))
  /\ UNCHANGED nonStoreVars

\* "PUT file length": the error, or the handler goes on to read the data
StorePut(c, args) ==
  /\ store_pc[c] = "ready"
  /\ IF PutFile(args) = NoAnswer
     THEN /\ store_pc' = [store_pc EXCEPT ![c] = "data"]
          /\ store_read' = [store_read EXCEPT ![c] = args]
          /\ UNCHANGED <<root, answer, stored>>
     ELSE Respond(c, "PUT", PutFile(args))
  /\ UNCHANGED nonStoreVars

\* the length bytes of a PUT have arrived: ServerState::put_file_data
StorePutData(c, data) ==
  /\ store_pc[c] = "data"
  /\ Len(data) = store_read[c][2]
  /\ LET path == store_read[c][1]
         put == PutFileData(root, path, data)
     IN /\ Len(DirGetFile(put.dir, Tail(path))) <= MaxRevisions
        /\ root' = put.dir
        /\ answer' = [answer EXCEPT ![c] = Written("PUT", put.answer)]
        /\ stored' = IF put.dir # root
                     THEN MapInsert(stored, path, Append(StoredOf(path), data))
                     ELSE stored
  /\ store_pc' = [store_pc EXCEPT ![c] = "ready"]
  /\ store_read' = [store_read EXCEPT ![c] = <<>>]
  /\ UNCHANGED nonStoreVars

\* "LIST dir"
StoreList(c, dir_name) ==
  /\ store_pc[c] = "ready"
  /\ Respond(c, "LIST", ListFiles(root, dir_name))
  /\ UNCHANGED nonStoreVars

\* a line with another verb: the Abort message is written and the loop ends;
\* or the end of the input, while a command or the data of a PUT is read
StoreEnd(c) ==
  /\ store_pc[c] \in {"ready", "data"}
  /\ store_pc' = [store_pc EXCEPT ![c] = "closed"]
  /\ store_read' = [store_read EXCEPT ![c] = <<>>]
  /\ answer' = [answer EXCEPT ![c] = Written("none", NoAnswer)]
  /\ UNCHANGED <<root, stored>>
  /\ UNCHANGED nonStoreVars

\* the arguments of the GET and PUT requests: with and without a revision,
\* with one argument too many, without a length
GetArgs == {<<p>> : p \in Paths \cup {<<>>}}
             \cup {<<p, r>> : p \in {<<"/", "a">>, <<"/", "a", "!">>},
                              r \in RevisionArgs}
             \cup {<<<<"/", "a">>, 1, 1>>}
PutArgs == {<<p, 1>> : p \in Paths} \cup {<<<<"/", "a">>>>}

StoreNext ==
  \/ \E c \in StoreIds : StoreHelp(c)
  \/ \E c \in StoreIds, args \in GetArgs : StoreGet(c, args)
  \/ \E c \in StoreIds, args \in PutArgs : StorePut(c, args)
  \/ \E c \in StoreIds, data \in Payloads : StorePutData(c, data)
  \/ \E c \in StoreIds, dir_name \in Paths \cup {<<>>} : StoreList(c, dir_name)
  \/ \E c \in StoreIds : StoreEnd(c)

(***************************************************************************)
(* File store: properties.                                                 *)
(***************************************************************************)
\* the revisions of the file at a path of a PUT
RevisionsOf(dir, path) == DirGetFile(dir, Tail(path))

\* the paths a PUT accepts
FilePaths == {p \in Paths : PutFile(<<p, 0>>) = NoAnswer}

\* C21: a PUT of the latest revision changes nothing and answers its number,
\* any other PUT of a text appends one revision to this file alone and answers
\* the new count, and the same PUT again changes nothing more.
C21_PutIdempotent ==
  \A path \in FilePaths, data \in Payloads :
    IsText(data) =>
      LET before == RevisionsOf(root, path)
          put == PutFileData(root, path, data)
          again == PutFileData(put.dir, path, data)
      IN /\ IF before # <<>> /\ data = before[Len(before)]
            THEN /\ put.dir = root
                 /\ put.answer = Ok(Len(before), <<>>, {})
            ELSE /\ RevisionsOf(put.dir, path) = Append(before, data)
                 /\ put.answer = Ok(Len(before) + 1, <<>>, {})
                 /\ \A other \in FilePaths \ {path} :
                      RevisionsOf(put.dir, other) = RevisionsOf(root, other)
         /\ again.dir = put.dir
         /\ again.answer = put.answer

\* C21 happens: two connections put the same payload to one file, which has
\* one revision, and both were answered r1
C21_Witness ==
  \E path \in FilePaths :
    /\ Len(RevisionsOf(root, path)) = 1
    /\ \A other \in FilePaths \ {path} : RevisionsOf(root, other) = <<>>
    /\ \A c \in StoreIds :
         answer[c] = Written("PUT", Ok(1, <<>>, {}))

\* C22: the file at a path has one revision for each PUT that changed it, GET
\* with revision K returns the payload of the K-th of them, and GET without a
\* revision and GET with the count of the LIST line return the payload of the
\* last of them.
C22_Revisions ==
  \A path \in FilePaths :
    LET puts == StoredOf(path)
        parent == IF Len(path) = 2 THEN <<"/">> ELSE SubSeq(path, 1, Len(path) - 2)
    IN /\ Len(RevisionsOf(root, path)) = Len(puts)
       /\ \A k \in 1..Len(puts) :
            GetFile(root, <<path, k>>) = Ok(0, puts[k], {})
       /\ puts # <<>> =>
            /\ GetFile(root, <<path>>) = Ok(0, puts[Len(puts)], {})
            /\ \E line \in ListFiles(root, parent).lines :
                 /\ ~line.is_dir
                 /\ line.name = <<path[Len(path)]>>
                 /\ GetFile(root, <<path, line.revision>>)
                      = Ok(0, puts[Len(puts)], {})

\* C22 happens: the two revisions of a file came from PUTs of two connections
C22_Witness ==
  \E path \in FilePaths :
    /\ Len(RevisionsOf(root, path)) = 2
    /\ \A other \in FilePaths \ {path} : RevisionsOf(root, other) = <<>>
    /\ answer[1] = Written("PUT", Ok(1, <<>>, {}))
    /\ answer[2] = Written("PUT", Ok(2, <<>>, {}))

\* C23: a handler that reads the next command has sent READY after its last
\* response.
C23_ReadyAfterResponse ==
  \A c \in StoreIds : store_pc[c] = "ready" => answer[c].ready

(***************************************************************************)
(* Pest control (src/src/server_11.rs).  Clients report the populations of *)
(* a site; the server keeps, per site, the targets it fetched from the     *)
(* authority and the policies it created there, and changes the policies   *)
(* after each visit.  The bytes of a frame are kept as its type, its       *)
(* length field, the number and the sum of the bytes that follow the       *)
(* header, and what ServerMessage::parse makes of them.  SpecPest.         *)
(***************************************************************************)
MaxPestConns == 2
MaxPolicyId == 2

PestIds == 1..MaxPestConns
PestSites == {1}
Species == {"a", "b"}
PolicyIds == 1..MaxPolicyId
\* the populations a client reports
Counts == {0, 1, 3}

\* the targets the authority answers DialAuthority with
AuthorityTargets ==
  [a |-> [min |-> 1, max |-> 2], b |-> [min |-> 1, max |-> 1]]

\* the observations of the SiteVisit messages; species "c" has no target
ObservationLists ==
  {<<>>, <<[species |-> "c", count |-> 3]>>}
    \cup {<<[species |-> "a", count |-> n]>> : n \in Counts}
    \cup {<<[species |-> "a", count |-> n], [species |-> "b", count |-> m]>> :
            n \in Counts, m \in {1, 3}}

\* a parsed message
Message(kind, valid, site, populations) ==
  [kind |-> kind, valid |-> valid, site |-> site, observations |-> populations]

\* ServerResult
ParseOk(msg) == [outcome |-> "Ok", msg |-> msg]
ParseErr == [outcome |-> "Err", msg |-> Message("none", FALSE, 0, <<>>)]
\* parse_message does not return: the subtraction of line 415 panics, or
\* read_for waits for bytes that do not come
ParsePanic == [outcome |-> "panic", msg |-> Message("none", FALSE, 0, <<>>)]
ParseBlocked == [outcome |-> "blocked", msg |-> Message("none", FALSE, 0, <<>>)]

\* u32::to_be_bytes
U32Bytes(n) ==
  <<(n \div 16777216) % 256, (n \div 65536) % 256, (n \div 256) % 256, n % 256>>

\* the wrapping sum of the five header bytes
HeaderSum(msg_type, msg_len) ==
  LET b == U32Bytes(msg_len)
  IN (msg_type + b[1] + b[2] + b[3] + b[4]) % 256

\* Server::parse_message on a frame of the stream.  checks: whether the build
\* checks integer overflow.  With a length below 5 and no checks, nb_bytes
\* wraps to more bytes than a stream carries.
ParseMessage(frame, checks) ==
  IF frame.msg_len < 5 /\ checks THEN ParsePanic
  ELSE IF frame.msg_len < 5 \/ frame.following < frame.msg_len - 5
       THEN (IF frame.eof THEN ParseErr ELSE ParseBlocked)
  ELSE IF (HeaderSum(frame.msg_type, frame.msg_len) + frame.data_sum) % 256 # 0
       THEN ParseErr
  ELSE IF frame.msg_len - 5 = 0 THEN ParseErr
  ELSE frame.body

\* a frame as ServerMessage::to_bytes makes it: the checksum byte makes the
\* sum of all bytes 0
Frame(msg_type, msg_len, body) ==
  [msg_type |-> msg_type, msg_len |-> msg_len, following |-> msg_len - 5,
   data_sum |-> (256 - HeaderSum(msg_type, msg_len)) % 256, eof |-> FALSE,
   body |-> body]

HelloFrame == Frame(80, 25, ParseOk(Message("Hello", TRUE, 0, <<>>)))
SiteVisitFrame(site, populations) ==
  Frame(88, 14 + 9 * Len(populations),
        ParseOk(Message("SiteVisit", TRUE, site, populations)))

\* the frames of the clients: good ones, a Hello of another version, an Ok,
\* a SiteVisit with conflicting counts, a wrong checksum, lengths below 6, a
\* frame cut by the end of the stream
PestFrames ==
  {HelloFrame,
   Frame(80, 25, ParseOk(Message("Hello", FALSE, 0, <<>>))),
   Frame(82, 6, ParseOk(Message("Ok", TRUE, 0, <<>>))),
   Frame(88, 32, ParseErr),
   [HelloFrame EXCEPT !.data_sum = (@ + 1) % 256],
   [HelloFrame EXCEPT !.msg_len = 4, !.following = 0, !.data_sum = 0],
   [HelloFrame EXCEPT !.msg_len = 0, !.following = 1, !.data_sum = 176],
   [HelloFrame EXCEPT !.msg_len = 5, !.following = 0, !.data_sum = 0],
   [HelloFrame EXCEPT !.msg_type = 251, !.msg_len = 5, !.following = 0,
                      !.data_sum = 0],
   [HelloFrame EXCEPT !.following = 3, !.eof = TRUE]}
    \cup {SiteVisitFrame(site, populations) :
            site \in PestSites, populations \in ObservationLists}

\* SiteState::new
NewSiteState == [targets |-> <<>>, policies |-> <<>>]

\* PolicyAction
PolicyAction(kind, id, species, policy_type) ==
  [kind |-> kind, id |-> id, species |-> species, policy_type |-> policy_type]

\* mutant of GetAction: the old policy is not deleted
GetAction_KeepsOld(state, species, count) ==
  IF species \notin DOMAIN state.targets THEN <<>>
  ELSE LET target == state.targets[species]
       IN IF count < target.min \/ count > target.max
          THEN <<PolicyAction("Add", 0, species,
                              IF count < target.min THEN "Conserve" ELSE "Cull")>>
          ELSE <<>>

\* SiteState::get_action
GetAction(state, species, count) ==
  IF species \notin DOMAIN state.targets THEN <<>>
  ELSE LET target == state.targets[species]
           has == species \in DOMAIN state.policies
           last_policy == state.policies[species]
       IN IF \/ count < target.min /\ has /\ last_policy.policy_type = "Conserve"
             \/ count > target.max /\ has /\ last_policy.policy_type = "Cull"
             \/ target.min <= count /\ count <= target.max /\ ~has
          THEN <<>>
          ELSE (IF has
                THEN <<PolicyAction("Delete", last_policy.id, species, "none")>>
                ELSE <<>>)
               \o (IF count < target.min \/ count > target.max
                   THEN <<PolicyAction("Add", 0, species,
                                       IF count < target.min THEN "Conserve"
                                       ELSE "Cull")>>
                   ELSE <<>>)

\* all_species_obs of get_actions: 0 for every species with a target, then
\* the observed counts of these species
RECURSIVE AllSpeciesObs(_, _)
AllSpeciesObs(targets, populations) ==
  IF populations = <<>> THEN [species \in DOMAIN targets |-> 0]
  ELSE LET rest == AllSpeciesObs(targets,
                                 SubSeq(populations, 1, Len(populations) - 1))
           obs == populations[Len(populations)]
       IN IF obs.species \in DOMAIN rest
          THEN [rest EXCEPT ![obs.species] = obs.count]
          ELSE rest

\* the flat_map of get_actions over the species in one order
RECURSIVE FlatMapActions(_, _, _)
FlatMapActions(state, all_species_obs, order) ==
  IF order = <<>> THEN <<>>
  ELSE GetAction(state, Head(order), all_species_obs[Head(order)])
         \o FlatMapActions(state, all_species_obs, Tail(order))

\* SiteState::get_actions: one list for each iteration order of the HashMap
GetActions(state, populations) ==
  {FlatMapActions(state, AllSpeciesObs(state.targets, populations), order) :
     order \in Orders(DOMAIN state.targets)}

\* the replies of the authority: the expected one, another one (an Error, an
\* unexpected message, the end of the stream), and no connection at all
AuthReplies == {"good", "bad", "no_connect"}

NoVisit == [site |-> 0, observations |-> <<>>, actions |-> <<>>, done |-> 0]

PestInit ==
  /\ site_states = <<>>
  /\ site_lock = [site \in PestSites |-> 0]
  /\ auth_connections = {}
  /\ pest_pc = [c \in PestIds |-> "hello"]
  /\ pest_visit = [c \in PestIds |-> NoVisit]
  /\ pest_error = [c \in PestIds |-> FALSE]
  /\ pest_failed = [c \in PestIds |-> 0]

\* an Error frame is written and the handler returns
SendError(c) ==
  /\ pest_pc' = [pest_pc EXCEPT ![c] = "closed"]
  /\ pest_error' = [pest_error EXCEPT ![c] = TRUE]
  /\ pest_visit' = [pest_visit EXCEPT ![c] = NoVisit]

\* parse_message does not return
NoReturn(c, outcome) ==
  /\ pest_pc' = [pest_pc EXCEPT ![c] = IF outcome = "panic" THEN "panicked"
                                        ELSE "blocked"]
  /\ UNCHANGED <<pest_error, pest_visit>>

\* handle_connection: the first message
PFirst(c, frame, checks) ==
  /\ pest_pc[c] = "hello"
  /\ LET first_message == ParseMessage(frame, checks)
     IN IF first_message.outcome \in {"panic", "blocked"}
        THEN NoReturn(c, first_message.outcome)
        ELSE IF /\ first_message.outcome = "Ok"
                /\ first_message.msg.kind = "Hello"
                /\ first_message.msg.valid
        THEN /\ pest_pc' = [pest_pc EXCEPT ![c] = "ready"]
             /\ UNCHANGED <<pest_error, pest_visit>>
        ELSE SendError(c)
  /\ UNCHANGED <<site_states, site_lock, auth_connections, pest_failed>>
  /\ UNCHANGED nonPestVars

\* handle_connection: a message of the loop
PVisit(c, frame, checks) ==
  /\ pest_pc[c] = "ready"
  /\ LET message == ParseMessage(frame, checks)
     IN IF message.outcome \in {"panic", "blocked"}
        THEN NoReturn(c, message.outcome)
        ELSE IF message.outcome = "Ok" /\ message.msg.kind = "SiteVisit"
        THEN /\ pest_pc' = [pest_pc EXCEPT ![c] = "get_site_state"]
             /\ pest_visit' = [pest_visit EXCEPT ![c] =
                                 [site |-> message.msg.site,
                                  observations |-> message.msg.observations,
                                  actions |-> <<>>, done |-> 0]]
             /\ UNCHANGED pest_error
        ELSE SendError(c)
  /\ UNCHANGED <<site_states, site_lock, auth_connections, pest_failed>>
  /\ UNCHANGED nonPestVars

\* the client closes its stream while parse_message reads: read_for returns
\* None
PEnd(c) ==
  /\ pest_pc[c] \in {"hello", "ready", "blocked"}
  /\ SendError(c)
  /\ UNCHANGED <<site_states, site_lock, auth_connections, pest_failed>>
  /\ UNCHANGED nonPestVars

\* get_site_state up to get_targets: a new state is inserted with its lock
\* taken
PGetSiteState(c) ==
  /\ pest_pc[c] = "get_site_state"
  /\ LET site == pest_visit[c].site
     IN IF site \in DOMAIN site_states
        THEN /\ pest_pc' = [pest_pc EXCEPT ![c] = "lock"]
             /\ UNCHANGED <<site_states, site_lock>>
        ELSE /\ site_states' = MapInsert(site_states, site, NewSiteState)
             /\ site_lock' = [site_lock EXCEPT ![site] = c]
             /\ pest_pc' = [pest_pc EXCEPT ![c] = "targets"]
  /\ UNCHANGED <<auth_connections, pest_visit, pest_error, pest_failed>>
  /\ UNCHANGED nonPestVars

\* the request to the authority fails: process_observation returns the Err,
\* the guards are dropped, the client is sent the Error
Upstream(c, site) ==
  /\ SendError(c)
  /\ site_lock' = [site_lock EXCEPT ![site] = 0]
  /\ pest_failed' = [pest_failed EXCEPT ![c] = site]

\* get_targets: get_connection, the Hello and the DialAuthority exchanges
PTargets(c, reply) ==
  /\ pest_pc[c] = "targets"
  /\ LET site == pest_visit[c].site
     IN /\ reply = "no_connect" => site \notin auth_connections
        /\ IF reply = "no_connect"
           THEN /\ pest_pc' = [pest_pc EXCEPT ![c] = "no_authority"]
                /\ site_lock' = [site_lock EXCEPT ![site] = 0]
                /\ UNCHANGED <<site_states, auth_connections, pest_visit,
                               pest_error, pest_failed>>
           ELSE /\ auth_connections' = auth_connections \cup {site}
                /\ IF reply = "good"
                   THEN /\ site_states' = [site_states EXCEPT
                                             ![site].targets = AuthorityTargets]
                        /\ site_lock' = [site_lock EXCEPT ![site] = 0]
                        /\ pest_pc' = [pest_pc EXCEPT ![c] = "lock"]
                        /\ UNCHANGED <<pest_visit, pest_error, pest_failed>>
                   ELSE /\ Upstream(c, site)
                        /\ UNCHANGED site_states
  /\ UNCHANGED nonPestVars

\* process_observation: the lock of the site state, then get_actions
PLock(c) ==
  /\ pest_pc[c] = "lock"
  /\ LET site == pest_visit[c].site
     IN /\ site_lock[site] = 0
        /\ site_lock' = [site_lock EXCEPT ![site] = c]
        /\ \E actions \in GetActions(site_states[site], pest_visit[c].observations) :
             pest_visit' = [pest_visit EXCEPT ![c].actions = actions]
  /\ pest_pc' = [pest_pc EXCEPT ![c] = "acting"]
  /\ UNCHANGED <<site_states, auth_connections, pest_error, pest_failed>>
  /\ UNCHANGED nonPestVars

\* process_observation: one action, delete_policy or add_policy with the
\* reply of the authority
PAct(c, reply, id) ==
  /\ pest_pc[c] = "acting"
  /\ pest_visit[c].done < Len(pest_visit[c].actions)
  /\ reply = "no_connect" => pest_visit[c].site \notin auth_connections
  /\ LET site == pest_visit[c].site
         action == pest_visit[c].actions[pest_visit[c].done + 1]
     IN IF reply = "no_connect"
        THEN /\ pest_pc' = [pest_pc EXCEPT ![c] = "no_authority"]
             /\ site_lock' = [site_lock EXCEPT ![site] = 0]
             /\ UNCHANGED <<site_states, auth_connections, pest_visit,
                            pest_error, pest_failed>>
        ELSE /\ auth_connections' = auth_connections \cup {site}
             /\ IF reply = "good"
                THEN /\ site_states' =
                          [site_states EXCEPT ![site].policies =
                             IF action.kind = "Delete"
                             THEN MapRemove(@, action.species)
                             ELSE MapInsert(@, action.species,
                                            [id |-> id,
                                             policy_type |-> action.policy_type])]
                     /\ pest_visit' = [pest_visit EXCEPT ![c].done = @ + 1]
                     /\ UNCHANGED <<site_lock, pest_pc, pest_error, pest_failed>>
                ELSE /\ Upstream(c, site)
                     /\ UNCHANGED site_states
  /\ UNCHANGED nonPestVars

\* process_observation returns Ok and the loop reads the next message
PDone(c) ==
  /\ pest_pc[c] = "acting"
  /\ pest_visit[c].done = Len(pest_visit[c].actions)
  /\ site_lock' = [site_lock EXCEPT ![pest_visit[c].site] = 0]
  /\ pest_pc' = [pest_pc EXCEPT ![c] = "ready"]
  /\ pest_visit' = [pest_visit EXCEPT ![c] = NoVisit]
  /\ UNCHANGED <<site_states, auth_connections, pest_error, pest_failed>>
  /\ UNCHANGED nonPestVars

PestNext ==
  \/ \E c \in PestIds, frame \in PestFrames, checks \in BOOLEAN :
       PFirst(c, frame, checks)
  \/ \E c \in PestIds, frame \in PestFrames, checks \in BOOLEAN :
       PVisit(c, frame, checks)
  \/ \E c \in PestIds : PEnd(c)
  \/ \E c \in PestIds : PGetSiteState(c)
  \/ \E c \in PestIds, reply \in AuthReplies : PTargets(c, reply)
  \/ \E c \in PestIds : PLock(c)
  \/ \E c \in PestIds, reply \in AuthReplies, id \in PolicyIds : PAct(c, reply, id)
  \/ \E c \in PestIds : PDone(c)

(***************************************************************************)
(* Pest control: properties.                                               *)
(***************************************************************************)
\* the policy the counts ask for
Desired(target, count) ==
  IF count < target.min THEN "Conserve"
  ELSE IF count > target.max THEN "Cull"
  ELSE "none"

\* the policy recorded for a species
Recorded(state, species) ==
  IF species \in DOMAIN state.policies
  THEN state.policies[species].policy_type ELSE "none"

\* the actions of a list that are about a species
ActionsFor(actions, species) ==
  SelectSeq(actions, LAMBDA action : action.species = species)

\* C24: when process_observation returns Ok, every species with a target has
\* the policy its count asks for; and the actions get_actions gives for a
\* species are none when its recorded policy is the one asked for, else the
\* Delete of the recorded policy, if any, followed by the Add of the policy
\* asked for, if any.
C24_Reconcile ==
  /\ \A c \in PestIds :
       (pest_pc[c] = "acting"
          /\ pest_visit[c].done = Len(pest_visit[c].actions)) =>
         LET state == site_states[pest_visit[c].site]
             counts == AllSpeciesObs(state.targets, pest_visit[c].observations)
         IN \A species \in DOMAIN state.targets :
              Recorded(state, species)
                = Desired(state.targets[species], counts[species])
  /\ \A site \in DOMAIN site_states, populations \in ObservationLists :
       LET state == site_states[site]
           counts == AllSpeciesObs(state.targets, populations)
       IN \A actions \in GetActions(state, populations) :
            /\ \A k \in 1..Len(actions) : actions[k].species \in DOMAIN state.targets
            /\ \A species \in DOMAIN state.targets :
                 LET desired == Desired(state.targets[species], counts[species])
                 IN ActionsFor(actions, species) =
                      IF Recorded(state, species) = desired THEN <<>>
                      ELSE (IF species \in DOMAIN state.policies
                            THEN <<PolicyAction("Delete",
                                                state.policies[species].id,
                                                species, "none")>>
                            ELSE <<>>)
                           \o (IF desired # "none"
                               THEN <<PolicyAction("Add", 0, species, desired)>>
                               ELSE <<>>)

\* C24 happens: a visit that replaced the policy of species "a" returns Ok
C24_Witness ==
  \E c \in PestIds :
    /\ pest_pc[c] = "acting"
    /\ pest_visit[c].done = 2
    /\ Len(pest_visit[c].actions) = 2
    /\ pest_visit[c].actions[1].kind = "Delete"
    /\ pest_visit[c].actions[2].kind = "Add"
    /\ pest_visit[c].actions[1].species = "a"
    /\ pest_visit[c].actions[2].species = "a"

\* C25: after a failure of the authority during a visit of a site, the server
\* no longer holds the connection to the authority of this site.
C25_ConnectionDiscarded ==
  \A c \in PestIds :
    pest_failed[c] # 0 =>
      /\ pest_error[c]
      /\ pest_pc[c] = "closed"
      /\ pest_failed[c] \notin auth_connections

\* C26: a handler that has stopped reading the frames of its client has sent
\* the Error frame.
C26_FramingErrors ==
  \A c \in PestIds :
    pest_pc[c] \in {"closed", "panicked", "blocked"} => pest_error[c]

\* C40: the site state that process_observation computes the actions of a
\* visit from holds the targets that the authority gave for the site.
C40_TargetsFetched ==
  \A c \in PestIds :
    pest_pc[c] = "acting" =>
      site_states[pest_visit[c].site].targets = AuthorityTargets

\* C33: a handler that is about to send a request to the authority
\* (DialAuthority in get_targets, DeletePolicy or CreatePolicy in
\* process_observation) does not hold the lock of the site state.
C33_NoLockDuringRequest ==
  \A c \in PestIds :
    (\/ pest_pc[c] = "targets"
     \/ pest_pc[c] = "acting" /\ pest_visit[c].done < Len(pest_visit[c].actions))
      => site_lock[pest_visit[c].site] # c

(***************************************************************************)
(* Insecure sockets layer (src/src/server_08.rs).  One connection: the     *)
(* client sends a cipher spec ended by a 0 byte, then toy lists encoded   *)
(* with this cipher; the server answers each line with its most wanted    *)
(* toy, encoded as well.  Bytes are numbers in 0..255.  SpecCipher.        *)
(***************************************************************************)
MaxRead == 11

\* u8::bitxor
RECURSIVE BitXor(_, _)
BitXor(a, b) ==
  IF a = 0 THEN b
  ELSE IF b = 0 THEN a
  ELSE ((a + b) % 2) + (2 * BitXor(a \div 2, b \div 2))

\* u8::reverse_bits, on the lowest n bits
RECURSIVE ReverseLow(_, _)
ReverseLow(byte, n) ==
  IF n = 0 THEN 0
  ELSE ((byte % 2) * (2 ^ (n - 1))) + ReverseLow(byte \div 2, n - 1)

ReverseBits(byte) == ReverseLow(byte, 8)

\* CipherOp
CipherOp(op, n) == [op |-> op, n |-> n]

\* CipherOp::encode
CipherEncode(op, byte, pos) ==
  CASE op.op = "Reversebits" -> ReverseBits(byte)
    [] op.op = "Xor" -> BitXor(byte, op.n)
    [] op.op = "Xorpos" -> BitXor(byte, pos % 256)
    [] op.op = "Add" -> (byte + op.n) % 256
    [] op.op = "Addpos" -> (byte + (pos % 256)) % 256

\* CipherOp::decode
CipherDecode(op, byte, pos) ==
  CASE op.op = "Add" -> (byte + 256 - op.n) % 256
    [] op.op = "Addpos" -> (byte + 256 - (pos % 256)) % 256
    [] OTHER -> CipherEncode(op, byte, pos)

\* CipherOp::parse_spec from an index on: the ops, or a panic at a byte that
\* is no op
RECURSIVE ParseSpecFrom(_, _)
ParseSpecFrom(spec, index) ==
  IF index > Len(spec) \/ spec[index] = 0
  THEN [cipher_ops |-> <<>>, panicked |-> FALSE]
  ELSE IF spec[index] > 5 \/ (spec[index] \in {2, 4} /\ index + 1 > Len(spec))
  THEN [cipher_ops |-> <<>>, panicked |-> TRUE]
  ELSE LET operand == spec[index] \in {2, 4}
           op == CASE spec[index] = 1 -> CipherOp("Reversebits", 0)
                   [] spec[index] = 2 -> CipherOp("Xor", spec[index + 1])
                   [] spec[index] = 3 -> CipherOp("Xorpos", 0)
                   [] spec[index] = 4 -> CipherOp("Add", spec[index + 1])
                   [] spec[index] = 5 -> CipherOp("Addpos", 0)
           rest == ParseSpecFrom(spec, index + (IF operand THEN 2 ELSE 1))
       IN [cipher_ops |-> <<op>> \o rest.cipher_ops, panicked |-> rest.panicked]

ParseSpec(spec) == ParseSpecFrom(spec, 1)

\* the fold of encode over the ops, first to last
RECURSIVE FoldEncode(_, _, _)
FoldEncode(ops, byte, pos) ==
  IF ops = <<>> THEN byte
  ELSE FoldEncode(Tail(ops), CipherEncode(Head(ops), byte, pos), pos)

\* the fold of decode over the ops, last to first
RECURSIVE FoldDecode(_, _, _)
FoldDecode(ops, byte, pos) ==
  IF ops = <<>> THEN byte
  ELSE FoldDecode(SubSeq(ops, 1, Len(ops) - 1),
                  CipherDecode(ops[Len(ops)], byte, pos), pos)

\* the fold of decode over the ops, first to last
RECURSIVE FoldDecodeForward(_, _, _)
FoldDecodeForward(ops, byte, pos) ==
  IF ops = <<>> THEN byte
  ELSE FoldDecodeForward(Tail(ops),
                         CipherDecode(Head(ops), byte, pos), pos)

\* ObfuscationLayer::encode of the bytes of a str, from pos on
LayerEncode(ops, msg, pos) ==
  [bytes |-> [k \in 1..Len(msg) |-> FoldEncode(ops, msg[k], pos + k - 1)],
   server_pos |-> pos + Len(msg)]

\* String::from_utf8_lossy, for texts of one-byte and two-byte characters:
\* a byte that is neither is replaced by U+FFFD
RECURSIVE Utf8Lossy(_)
Utf8Lossy(bytes) ==
  IF bytes = <<>> THEN <<>>
  ELSE IF bytes[1] < 128 THEN <<bytes[1]>> \o Utf8Lossy(Tail(bytes))
  ELSE IF /\ bytes[1] \in 194..223
          /\ Len(bytes) >= 2
          /\ bytes[2] \in 128..191
       THEN <<bytes[1], bytes[2]>> \o Utf8Lossy(SubSeq(bytes, 3, Len(bytes)))
  ELSE <<239, 191, 189>> \o Utf8Lossy(Tail(bytes))

\* mutant of LayerDecode: the ops are undone first to last
LayerDecode_Forward(ops, msg, pos) ==
  [msg |-> Utf8Lossy([k \in 1..Len(msg) |->
                        FoldDecodeForward(ops, msg[k], pos + k - 1)]),
   client_pos |-> pos + Len(msg)]

\* ObfuscationLayer::decode, from pos on
LayerDecode(ops, msg, pos) ==
  [msg |-> Utf8Lossy([k \in 1..Len(msg) |->
                        FoldDecode(ops, msg[k], pos + k - 1)]),
   client_pos |-> pos + Len(msg)]

\* "123abcdefg789"
EqualTest == <<49, 50, 51, 97, 98, 99, 100, 101, 102, 103, 55, 56, 57>>

\* ObfuscationLayer::new
LayerNew(spec) ==
  LET parsed == ParseSpec(spec)
  IN IF parsed.panicked THEN [result |-> "panic", cipher_ops |-> <<>>]
     ELSE IF LayerEncode(parsed.cipher_ops, EqualTest, 0).bytes # EqualTest
     THEN [result |-> "Ok", cipher_ops |-> parsed.cipher_ops]
     ELSE [result |-> "Err", cipher_ops |-> <<>>]

\* str::split
RECURSIVE SplitBy(_, _)
SplitBy(s, sep) ==
  IF \A k \in 1..Len(s) : s[k] # sep THEN <<s>>
  ELSE LET index == CHOOSE k \in 1..Len(s) :
                      s[k] = sep /\ \A j \in 1..(k - 1) : s[j] # sep
       IN <<SubSeq(s, 1, index - 1)>> \o SplitBy(SubSeq(s, index + 1, Len(s)), sep)

\* the number a toy starts with, or -1 when parse fails on no digit
RECURSIVE LeadingNumber(_, _)
LeadingNumber(toy, acc) ==
  IF toy = <<>> \/ ~(toy[1] \in 48..57) THEN acc
  ELSE LeadingNumber(Tail(toy), (IF acc = -1 THEN 0 ELSE acc) * 10 + toy[1] - 48)

\* get_most_freq_toy: the last of the toys with the greatest number, or a
\* panic
GetMostFreqToy(toy_list) ==
  LET toys == SplitBy(toy_list, 44)
      key(k) == LeadingNumber(toys[k], -1)
  IN IF \E k \in 1..Len(toys) : key(k) = -1
     THEN [panicked |-> TRUE, toy |-> <<>>]
     ELSE [panicked |-> FALSE,
           toy |-> toys[CHOOSE k \in 1..Len(toys) :
                          /\ \A j \in 1..Len(toys) : key(j) <= key(k)
                          /\ \A j \in (k + 1)..Len(toys) : key(j) < key(k)]]

\* Workshop::add_data on the buffer with the data appended: the responses and
\* the rest of the buffer
RECURSIVE AddData(_)
AddData(buffer) ==
  IF \A k \in 1..Len(buffer) : buffer[k] # 10
  THEN [toys |-> <<>>, buffer |-> buffer, panicked |-> FALSE]
  ELSE LET index == CHOOSE k \in 1..Len(buffer) :
                      buffer[k] = 10 /\ \A j \in 1..(k - 1) : buffer[j] # 10
           first == GetMostFreqToy(SubSeq(buffer, 1, index - 1))
           rest == AddData(SubSeq(buffer, index + 1, Len(buffer)))
       IN [toys |-> <<first.toy \o <<10>>>> \o rest.toys,
           buffer |-> rest.buffer,
           panicked |-> first.panicked \/ rest.panicked]

\* the serialization of a cipher that parse_spec reads
RECURSIVE Serialize(_)
Serialize(ops) ==
  IF ops = <<>> THEN <<0>>
  ELSE (CASE Head(ops).op = "Reversebits" -> <<1>>
          [] Head(ops).op = "Xor" -> <<2, Head(ops).n>>
          [] Head(ops).op = "Xorpos" -> <<3>>
          [] Head(ops).op = "Add" -> <<4, Head(ops).n>>
          [] Head(ops).op = "Addpos" -> <<5>>
          [] OTHER -> <<6>>)
       \o Serialize(Tail(ops))

\* the encoding of the probe by a cipher is the probe
IsNoOp(ops) ==
  /\ \A k \in 1..Len(ops) : ops[k].op # "Unknown"
  /\ LayerEncode(ops, EqualTest, 0).bytes = EqualTest

\* what a client sends for a text: its encoding; a client with a byte that
\* is no op as cipher sends the text as it is
ClientEncode(ops, text) ==
  IF \E k \in 1..Len(ops) : ops[k].op = "Unknown" THEN text
  ELSE LayerEncode(ops, text, 0).bytes

\* the sum of the lengths of the responses
RECURSIVE SumLen(_)
SumLen(toys) == IF toys = <<>> THEN 0 ELSE Len(Head(toys)) + SumLen(Tail(toys))

\* the ciphers of the clients
ClientCiphers ==
  {<<>>,
   <<CipherOp("Xor", 0)>>,
   <<CipherOp("Reversebits", 0), CipherOp("Reversebits", 0)>>,
   <<CipherOp("Reversebits", 0)>>,
   <<CipherOp("Add", 1), CipherOp("Xor", 1)>>,
   <<CipherOp("Xorpos", 0), CipherOp("Addpos", 0)>>,
   <<CipherOp("Add", 1), CipherOp("Xor", 0), CipherOp("Add", 255)>>,
   <<CipherOp("Unknown", 0)>>}

\* the toy lists of the clients: "1,2\n", "x\n", "\195\169"
ClientTexts == {<<49, 44, 50, 10>>, <<120, 10>>, <<195, 169>>}

\* the positions a stream is at
Positions == {0, 1, 255, 256}

CipherInit ==
  /\ cipher_pc = "idle"
  /\ client_ops = <<>>
  /\ cipher_wire = <<>>
  /\ cipher_buffer = <<>>
  /\ cipher_ops = <<>>
  /\ client_pos = 0
  /\ server_pos = 0
  /\ workshop = <<>>
  /\ cipher_decoded = 0
  /\ cipher_written = 0

\* a client connects: it will send its cipher and a text encoded with it
CConnect(ops, text) ==
  /\ cipher_pc = "idle"
  /\ cipher_pc' = "spec"
  /\ client_ops' = ops
  /\ cipher_wire' = Serialize(ops) \o ClientEncode(ops, text)
  /\ UNCHANGED <<cipher_buffer, cipher_ops, client_pos, server_pos, workshop,
                 cipher_decoded, cipher_written>>
  /\ UNCHANGED nonCipherVars

\* handle_connection with the buffer as it is after a read: the cipher spec
\* up to the first 0 byte, or the decoding of the whole buffer and the
\* responses
Process(buffer) ==
  IF cipher_pc = "spec"
  THEN IF \A k \in 1..Len(buffer) : buffer[k] # 0
       THEN /\ cipher_buffer' = buffer
            /\ UNCHANGED <<cipher_pc, cipher_ops, client_pos, server_pos,
                           workshop, cipher_decoded, cipher_written>>
       ELSE LET index == CHOOSE k \in 1..Len(buffer) :
                           buffer[k] = 0 /\ \A j \in 1..(k - 1) : buffer[j] # 0
                layer == LayerNew(SubSeq(buffer, 1, index))
            IN /\ cipher_buffer' = SubSeq(buffer, index + 1, Len(buffer))
               /\ cipher_pc' = CASE layer.result = "Ok" -> "running"
                                 [] layer.result = "Err" -> "closed"
                                 [] OTHER -> "panicked"
               /\ cipher_ops' = layer.cipher_ops
               /\ UNCHANGED <<client_pos, server_pos, workshop, cipher_decoded,
                              cipher_written>>
  ELSE LET decoded == LayerDecode(cipher_ops, buffer, client_pos)
           added == AddData(workshop \o decoded.msg)
           total == IF added.panicked THEN 0 ELSE SumLen(added.toys)
       IN /\ cipher_buffer' = <<>>
          /\ client_pos' = decoded.client_pos
          /\ cipher_decoded' = cipher_decoded + Len(buffer)
          /\ workshop' = added.buffer
          /\ cipher_pc' = IF added.panicked THEN "panicked" ELSE "running"
          /\ server_pos' = server_pos + total
          /\ cipher_written' = cipher_written + total
          /\ UNCHANGED cipher_ops

\* a read of n bytes
CRead(n) ==
  /\ cipher_pc \in {"spec", "running"}
  /\ cipher_pc = "running" => cipher_buffer = <<>>
  /\ n <= Len(cipher_wire)
  /\ cipher_wire' = SubSeq(cipher_wire, n + 1, Len(cipher_wire))
  /\ Process(cipher_buffer \o SubSeq(cipher_wire, 1, n))
  /\ UNCHANGED client_ops
  /\ UNCHANGED nonCipherVars

\* the loop finds bytes in the buffer that were read together with the spec
CLeftover ==
  /\ cipher_pc = "running"
  /\ cipher_buffer # <<>>
  /\ Process(cipher_buffer)
  /\ UNCHANGED <<client_ops, cipher_wire>>
  /\ UNCHANGED nonCipherVars

\* a read returns 0: the client has closed its side
CEof ==
  /\ cipher_pc \in {"spec", "running"}
  /\ cipher_pc = "running" => cipher_buffer = <<>>
  /\ cipher_wire = <<>>
  /\ cipher_pc' = "closed"
  /\ UNCHANGED <<client_ops, cipher_wire, cipher_buffer, cipher_ops, client_pos,
                 server_pos, workshop, cipher_decoded, cipher_written>>
  /\ UNCHANGED nonCipherVars

CipherNext ==
  \/ \E ops \in ClientCiphers, text \in ClientTexts : CConnect(ops, text)
  \/ \E n \in 1..MaxRead : CRead(n)
  \/ CLeftover
  \/ CEof

(***************************************************************************)
(* Insecure sockets layer: properties.                                     *)
(***************************************************************************)
\* the texts of the round trips: ASCII and a two-byte character
RoundTripTexts == {<<>>, <<0>>, <<49, 44, 50, 10>>, <<127, 195, 169, 1>>}

C28_NoOpRejected ==
  /\ (cipher_pc \notin {"idle", "spec"} /\ IsNoOp(client_ops)) =>
       /\ cipher_pc = "closed"
       /\ cipher_decoded = 0
       /\ cipher_written = 0
  /\ cipher_pc = "running" =>
       /\ client_pos = cipher_decoded
       /\ server_pos = cipher_written

(***************************************************************************)
(* utils::read_until (src/src/utils.rs): successive calls on one stream    *)
(* with one buffer, which starts filled with 0 bytes.  SpecLines.          *)
(***************************************************************************)
BufferLen == 4

\* the streams: "a\nb\n", "ab\ncd\n", "a\nb", "abcde\n", "\n\n", the two
\* bytes of one character and a newline, a stream with a 0 byte
LineStreams ==
  {<<97, 10, 98, 10>>, <<97, 98, 10, 99, 100, 10>>, <<97, 10, 98>>,
   <<97, 98, 99, 100, 101, 10>>, <<10, 10>>,
   <<195, 169, 10>>, <<10, 0, 98, 10>>}

\* the position of the first byte of a sequence that is b, or 0
PositionOfByte(s, b) ==
  IF \A k \in 1..Len(s) : s[k] # b THEN 0
  ELSE CHOOSE k \in 1..Len(s) : s[k] = b /\ \A j \in 1..(k - 1) : s[j] # b

\* data_len at the start of a call: the position of the first 0 byte
DataLen(buffer) ==
  IF PositionOfByte(buffer, 0) = 0 THEN Len(buffer)
  ELSE PositionOfByte(buffer, 0) - 1

LinesInit ==
  /\ ru_pc = "start"
  /\ ru_input = <<>>
  /\ ru_stream = <<>>
  /\ ru_buffer = [k \in 1..BufferLen |-> 0]
  /\ ru_data = <<>>
  /\ ru_lines = <<>>

\* a stream is chosen
RStart(stream) ==
  /\ ru_pc = "start"
  /\ ru_pc' = "idle"
  /\ ru_input' = stream
  /\ ru_stream' = stream
  /\ UNCHANGED <<ru_buffer, ru_data, ru_lines>>
  /\ UNCHANGED nonLinesVars

\* the end of read_until after the loop, with data_len bytes in the buffer:
\* the line is returned and the bytes after the delimiter move to the front
ReturnLine(buffer, data, data_len) ==
  LET index == PositionOfByte(buffer, 10)
  IN /\ ru_lines' = Append(ru_lines, data \o Utf8Lossy(SubSeq(buffer, 1, index - 1)))
     /\ ru_buffer' = [k \in 1..BufferLen |->
                        IF k <= data_len - index THEN buffer[index + k] ELSE 0]
     /\ ru_data' = <<>>
     /\ ru_pc' = "idle"

\* one turn of the loop with data_len bytes in the buffer: the end of the
\* call, or the bytes go to data and the call waits for a read
LoopTurn(buffer, data, data_len) ==
  IF PositionOfByte(SubSeq(buffer, 1, data_len), 10) # 0
  THEN ReturnLine(buffer, data, data_len)
  ELSE /\ ru_data' = data \o Utf8Lossy(SubSeq(buffer, 1, data_len))
       /\ ru_buffer' = buffer
       /\ ru_pc' = "reading"
       /\ UNCHANGED ru_lines

\* a call of read_until, up to its return or its first read
RCall ==
  /\ ru_pc = "idle"
  /\ LoopTurn(ru_buffer, <<>>, DataLen(ru_buffer))
  /\ UNCHANGED <<ru_input, ru_stream>>
  /\ UNCHANGED nonLinesVars

\* a read gives n bytes, which go to the front of the buffer
RRead(n) ==
  /\ ru_pc = "reading"
  /\ n <= Len(ru_stream)
  /\ ru_stream' = SubSeq(ru_stream, n + 1, Len(ru_stream))
  /\ LoopTurn([k \in 1..BufferLen |-> IF k <= n THEN ru_stream[k] ELSE ru_buffer[k]],
              ru_data, n)
  /\ UNCHANGED ru_input
  /\ UNCHANGED nonLinesVars

\* a read gives 0 bytes: read_until returns None
REof ==
  /\ ru_pc = "reading"
  /\ ru_stream = <<>>
  /\ ru_pc' = "eof"
  /\ UNCHANGED <<ru_input, ru_stream, ru_buffer, ru_data, ru_lines>>
  /\ UNCHANGED nonLinesVars

LinesNext ==
  \/ \E stream \in LineStreams : RStart(stream)
  \/ RCall
  \/ \E n \in 1..BufferLen : RRead(n)
  \/ REof

(***************************************************************************)
(* read_until: properties.                                                 *)
(***************************************************************************)
\* the lines of a stream: what is between its newlines
LinesOf(stream) ==
  SubSeq(SplitBy(stream, 10), 1, Len(SplitBy(stream, 10)) - 1)

\* C29: the lines returned so far are the first lines of the stream, and at
\* the end of the input all lines of the stream have been returned.
C29_Lines ==
  /\ Len(ru_lines) <= Len(LinesOf(ru_input))
  /\ ru_lines = SubSeq(LinesOf(ru_input), 1, Len(ru_lines))
  /\ ru_pc = "eof" => ru_lines = LinesOf(ru_input)

(***************************************************************************)
(* LRCP: the locks of Server.state and Server.ack_tasks (server_07.rs).    *)
(* handle_connection takes the lock of state and keeps it until it         *)
(* returns; acknowledge and send_data take the lock of ack_tasks for one   *)
(* map operation.  A task whose send_message_loop is over runs             *)
(* close_session: it takes the lock of ack_tasks and keeps it while it     *)
(* waits for the lock of state.  The handlers of the other datagrams wait  *)
(* for the lock of state, so one handler runs at a time.                   *)
(***************************************************************************)
\* the datagrams of the peer
LockRequests ==
  [verb : {"connect", "close"}, sid : SessionIds, pos : {0}, data : {<<>>}]
    \cup [verb : {"data"}, sid : SessionIds, pos : DataPositions,
          data : {<<"NL">>, <<"a">>}]
    \cup [verb : {"ack"}, sid : SessionIds, pos : AckPositions, data : {<<>>}]

\* ServerState::process_request
ProcessRequest(ss, req) ==
  CASE req.verb = "connect" -> ConnectSession(ss, req.sid)
    [] req.verb = "data" -> ReceiveData(ss, req.sid, req.pos, req.data)
    [] req.verb = "ack" -> ReceiveAck(ss, req.sid, req.pos)
    [] req.verb = "close" -> CloseSession(ss, req.sid)

LockInit ==
  /\ lk_sessions = <<>>
  /\ lk_handles = <<>>
  /\ lk_tasks = <<>>
  /\ lk_next = 1
  /\ lk_busy = FALSE
  /\ lk_responses = <<>>
  /\ lk_holder = 0

\* whether the next response of the handler needs the lock of ack_tasks
NeedsAckTasks ==
  /\ lk_responses # <<>>
  /\ \/ Head(lk_responses).kind = "Ack"
     \/ Head(lk_responses).kind = "Data" /\ Head(lk_responses).type = "data"

\* JoinHandle::abort by the holder of the lock of ack_tasks: a task that waits
\* in its loop is cancelled there; the running task goes on to its next await
AbortHandle(ts, sid, self) ==
  IF sid \notin DOMAIN lk_handles \/ lk_handles[sid] \notin DOMAIN ts THEN ts
  ELSE IF lk_handles[sid] = self THEN [ts EXCEPT ![self].aborted = TRUE]
  ELSE MapRemove(ts, lk_handles[sid])

\* handle_connection up to the loop: the lock of state is taken and
\* process_request answers the datagram
KStart(req) ==
  /\ ~lk_busy
  /\ (req.verb = "data" /\ req.sid \in DOMAIN lk_sessions) =>
       lk_sessions[req.sid].length_received + Len(Unescape(req.data)) <= MaxRx
  /\ LET out == ProcessRequest(lk_sessions, req)
     IN /\ lk_next + Cardinality(DataMsgs(out.responses)) <= MaxTasks + 1
        /\ lk_sessions' = out.sessions
        /\ lk_responses' = out.responses
  /\ lk_busy' = TRUE
  /\ UNCHANGED <<lk_handles, lk_tasks, lk_next, lk_holder>>
  /\ UNCHANGED nonLockVars

\* a response that is written to the socket: "/ack/SID/LEN/" or "/close/SID/"
KSend ==
  /\ lk_busy /\ lk_responses # <<>> /\ ~NeedsAckTasks
  /\ lk_responses' = Tail(lk_responses)
  /\ UNCHANGED <<lk_sessions, lk_handles, lk_tasks, lk_next, lk_busy, lk_holder>>
  /\ UNCHANGED nonLockVars

\* Server::acknowledge, which waits for the lock of ack_tasks
KAcknowledge ==
  /\ lk_busy /\ NeedsAckTasks /\ Head(lk_responses).kind = "Ack"
  /\ lk_holder = 0
  /\ lk_tasks' = AbortHandle(lk_tasks, Head(lk_responses).sid, 0)
  /\ lk_handles' = IF Head(lk_responses).sid \in DOMAIN lk_handles
                   THEN MapRemove(lk_handles, Head(lk_responses).sid)
                   ELSE lk_handles
  /\ lk_responses' = Tail(lk_responses)
  /\ UNCHANGED <<lk_sessions, lk_next, lk_busy, lk_holder>>
  /\ UNCHANGED nonLockVars

\* Server::send_data: the task is spawned, then its handle is stored under the
\* lock of ack_tasks (the task is not through its 21 sends, 500 ms apart,
\* before its handle is stored)
KSendData ==
  /\ lk_busy /\ NeedsAckTasks /\ Head(lk_responses).kind = "Data"
  /\ lk_holder = 0
  /\ lk_tasks' = MapInsert(lk_tasks, lk_next,
                           [sid |-> Head(lk_responses).sid, aborted |-> FALSE])
  /\ lk_handles' = MapInsert(lk_handles, Head(lk_responses).sid, lk_next)
  /\ lk_next' = lk_next + 1
  /\ lk_responses' = Tail(lk_responses)
  /\ UNCHANGED <<lk_sessions, lk_busy, lk_holder>>
  /\ UNCHANGED nonLockVars

\* the end of handle_connection: the guard of state is dropped
KEnd ==
  /\ lk_busy /\ lk_responses = <<>>
  /\ lk_busy' = FALSE
  /\ UNCHANGED <<lk_sessions, lk_handles, lk_tasks, lk_next, lk_responses,
                 lk_holder>>
  /\ UNCHANGED nonLockVars

\* Server::close_session of task t up to "state.lock().await": the lock of
\* ack_tasks is taken, the task stored under the session id is aborted and its
\* handle removed
KTimeout(t) ==
  /\ t \in DOMAIN lk_tasks
  /\ lk_holder = 0
  /\ lk_tasks' = AbortHandle(lk_tasks, lk_tasks[t].sid, t)
  /\ lk_handles' = IF lk_tasks[t].sid \in DOMAIN lk_handles
                   THEN MapRemove(lk_handles, lk_tasks[t].sid)
                   ELSE lk_handles
  /\ lk_holder' = t
  /\ UNCHANGED <<lk_sessions, lk_next, lk_busy, lk_responses>>
  /\ UNCHANGED nonLockVars

\* "state.lock().await" of task t finds the lock free: the session is closed,
\* both guards are dropped and the task is over
KClose(t) ==
  /\ lk_holder = t
  /\ ~lk_busy
  /\ lk_sessions' = CloseSession(lk_sessions, lk_tasks[t].sid).sessions
  /\ lk_tasks' = MapRemove(lk_tasks, t)
  /\ lk_holder' = 0
  /\ UNCHANGED <<lk_handles, lk_next, lk_busy, lk_responses>>
  /\ UNCHANGED nonLockVars

\* "state.lock().await" of task t suspends after the task aborted itself: the
\* task is cancelled there and its guard of ack_tasks is dropped
KCancel(t) ==
  /\ lk_holder = t
  /\ lk_busy
  /\ lk_tasks[t].aborted
  /\ lk_tasks' = MapRemove(lk_tasks, t)
  /\ lk_holder' = 0
  /\ UNCHANGED <<lk_sessions, lk_handles, lk_next, lk_busy, lk_responses>>
  /\ UNCHANGED nonLockVars

LockNext ==
  \/ \E req \in LockRequests : KStart(req)
  \/ KSend
  \/ KAcknowledge
  \/ KSendData
  \/ KEnd
  \/ \E t \in 1..MaxTasks : KTimeout(t)
  \/ \E t \in 1..MaxTasks : KClose(t)
  \/ \E t \in 1..MaxTasks : KCancel(t)

\* the scheduler runs every task that can go on, and a lock of tokio is handed
\* to its waiters in the order they came
LockFairness ==
  /\ WF_vars(KSend) /\ WF_vars(KEnd)
  /\ SF_vars(KAcknowledge) /\ SF_vars(KSendData)
  /\ \A t \in 1..MaxTasks : SF_vars(KClose(t)) /\ WF_vars(KCancel(t))

\* C34: every handle_connection that took the lock of state drops it later.
C34_HandlerCompletes == lk_busy ~> ~lk_busy

(***************************************************************************)
(* Pest control: the bytes of one client (server_11.rs, utils.rs).  The    *)
(* client sends a Hello and SiteVisits; the fields of a message are one    *)
(* byte here (100 for the protocol and version of a good Hello, the site   *)
(* of a SiteVisit), the header and the checksum are those of the code.     *)
(* Every read returns some of the bytes that are left.  A SiteVisit that   *)
(* is accepted is processed; the authority is left out.                    *)
(***************************************************************************)
\* the size of buf in read_for
ReadBufferBytes == 1024
\* the most SiteVisits the client sends
MaxVisits == 2

RECURSIVE ByteSum(_)
ByteSum(bytes) == IF bytes = <<>> THEN 0 ELSE Head(bytes) + ByteSum(Tail(bytes))

\* u32::from_be_bytes
U32FromBytes(b) == ((b[1] * 256 + b[2]) * 256 + b[3]) * 256 + b[4]

\* ServerMessage::to_bytes: type, length, content, checksum
ToBytes(msg) ==
  LET head == <<msg.type>> \o U32Bytes(Len(msg.content) + 6) \o msg.content
  IN head \o <<(256 - (ByteSum(head) % 256)) % 256>>

RECURSIVE StreamOf(_)
StreamOf(msgs) ==
  IF msgs = <<>> THEN <<>> ELSE ToBytes(Head(msgs)) \o StreamOf(Tail(msgs))

HelloMsg == [type |-> 80, content |-> <<100>>]
SiteVisitMsg(site) == [type |-> 88, content |-> <<site>>]
VisitedSites == {101, 102}

\* what the client sends: a Hello, then SiteVisits
ClientMessages ==
  {<<HelloMsg>> \o [k \in 1..Len(sites) |-> SiteVisitMsg(sites[k])] :
     sites \in UNION {[1..n -> VisitedSites] : n \in 0..MaxVisits}}

NoCall == [stage |-> "none", nb_bytes |-> 0, data |-> <<>>, data_len |-> 0,
           header |-> <<>>]

\* the start of read_for
ReadFor(stage, nb_bytes, buffer, header) ==
  [stage |-> stage, nb_bytes |-> nb_bytes, data |-> <<>>,
   data_len |-> Len(buffer), header |-> header]

\* the condition of the loop of read_for; in stage "wrapped" nb_bytes is
\* msg_len - 5 wrapped around, more bytes than a stream carries
MustRead(call) ==
  \/ call.stage = "wrapped"
  \/ call.stage \in {"header", "body"}
     /\ Len(call.data) + call.data_len < call.nb_bytes

BytesInit ==
  /\ rf_pc = "accept"
  /\ rf_frames = <<>>
  /\ rf_stream = <<>>
  /\ rf_buffer = <<>>
  /\ rf_call = NoCall
  /\ rf_processed = <<>>

\* the connection of a client that sends msgs is accepted
YAccept(msgs) ==
  /\ rf_pc = "accept"
  /\ rf_pc' = "first"
  /\ rf_frames' = msgs
  /\ rf_stream' = StreamOf(msgs)
  /\ UNCHANGED <<rf_buffer, rf_call, rf_processed>>
  /\ UNCHANGED nonBytesVars

\* parse_message is called: read_for(stream, buffer, 5)
YParse ==
  /\ rf_pc \in {"first", "loop"}
  /\ rf_call.stage = "none"
  /\ rf_call' = ReadFor("header", 5, rf_buffer, <<>>)
  /\ UNCHANGED <<rf_pc, rf_frames, rf_stream, rf_buffer, rf_processed>>
  /\ UNCHANGED nonBytesVars

\* one turn of the loop of read_for: the buffer is appended to data and the
\* next n bytes of the stream are read into the buffer
YRead(n) ==
  /\ MustRead(rf_call)
  /\ n \in 1..Min(Len(rf_stream), ReadBufferBytes)
  /\ rf_call' = [rf_call EXCEPT !.data = @ \o rf_buffer, !.data_len = n]
  /\ rf_buffer' = SubSeq(rf_stream, 1, n)
  /\ rf_stream' = SubSeq(rf_stream, n + 1, Len(rf_stream))
  /\ UNCHANGED <<rf_pc, rf_frames, rf_processed>>
  /\ UNCHANGED nonBytesVars

\* the Error frame is written and handle_connection returns
YError ==
  /\ rf_pc' = "closed"
  /\ rf_call' = NoCall

\* read returns 0 at the end of the stream: read_for returns None,
\* parse_message an Err
YEof ==
  /\ MustRead(rf_call)
  /\ rf_stream = <<>>
  /\ YError
  /\ UNCHANGED <<rf_frames, rf_stream, rf_buffer, rf_processed>>
  /\ UNCHANGED nonBytesVars

\* what read_for returns and what it leaves in the buffer
Returned(call, buffer) ==
  [data |-> call.data \o SubSeq(buffer, 1, call.nb_bytes - Len(call.data)),
   buffer |-> SubSeq(buffer, call.nb_bytes - Len(call.data) + 1, Len(buffer))]

\* read_for returns the header: parse_message calls
\* read_for(stream, buffer, msg_len as usize - 5); checks tells whether the
\* build checks integer overflow
YHeader(checks) ==
  /\ rf_call.stage = "header"
  /\ ~MustRead(rf_call)
  /\ LET out == Returned(rf_call, rf_buffer)
         msg_len == U32FromBytes(SubSeq(out.data, 2, 5))
     IN /\ rf_buffer' = out.buffer
        /\ IF msg_len < 5
           THEN IF checks
                THEN /\ rf_pc' = "panicked"
                     /\ rf_call' = NoCall
                ELSE /\ rf_call' = ReadFor("wrapped", 0, out.buffer, out.data)
                     /\ UNCHANGED rf_pc
           ELSE /\ rf_call' = ReadFor("body", msg_len - 5, out.buffer, out.data)
                /\ UNCHANGED rf_pc
  /\ UNCHANGED <<rf_frames, rf_stream, rf_processed>>
  /\ UNCHANGED nonBytesVars

\* ServerMessage::parse on the type and the content; a type of "none" is an
\* Err or a message that handle_connection answers with an Error
ParseContent(msg_type, content) ==
  IF msg_type = 80 /\ content = <<100>> THEN HelloMsg
  ELSE IF msg_type = 88 /\ Len(content) = 1 THEN SiteVisitMsg(content[1])
  ELSE [type |-> 0, content |-> <<>>]

\* read_for returns the rest of the message: the checksum, the parse, and
\* handle_connection on the result.  After the first message handle_connection
\* goes on with a new, empty buffer.
YBody ==
  /\ rf_call.stage = "body"
  /\ ~MustRead(rf_call)
  /\ LET out == Returned(rf_call, rf_buffer)
         checksum == (ByteSum(rf_call.header) + ByteSum(out.data)) % 256
         msg == ParseContent(rf_call.header[1],
                             SubSeq(out.data, 1, Len(out.data) - 1))
         accepted == /\ checksum = 0
                     /\ out.data # <<>>
                     /\ msg.type = (IF rf_pc = "first" THEN 80 ELSE 88)
     IN /\ rf_buffer' = IF rf_pc = "first" THEN <<>> ELSE out.buffer
        /\ IF accepted
           THEN /\ rf_processed' = Append(rf_processed, msg)
                /\ rf_pc' = "loop"
                /\ rf_call' = NoCall
           ELSE /\ YError
                /\ UNCHANGED rf_processed
  /\ UNCHANGED <<rf_frames, rf_stream>>
  /\ UNCHANGED nonBytesVars

BytesNext ==
  \/ \E msgs \in ClientMessages : YAccept(msgs)
  \/ YParse
  \/ \E n \in 1..ReadBufferBytes : YRead(n)
  \/ YEof
  \/ \E checks \in BOOLEAN : YHeader(checks)
  \/ YBody

\* C39: the messages handle_connection accepted are the first messages the
\* client sent, in their order, and all of them once the handler has ended.
C39_EveryFrameOnce ==
  /\ Len(rf_processed) <= Len(rf_frames)
  /\ rf_processed = SubSeq(rf_frames, 1, Len(rf_processed))
  /\ rf_pc \in {"closed", "panicked"} => rf_processed = rf_frames

(***************************************************************************)
(* The specifications.                                                     *)
(***************************************************************************)
Init ==
  /\ BrokerInit /\ LrcpInit /\ FrameInit /\ SpeedInit /\ ChatInit
  /\ StoreInit /\ PestInit /\ CipherInit /\ LinesInit
  /\ LockInit /\ BytesInit

SpecBroker == Init /\ [][BrokerNext]_vars

SpecWaiters == Init /\ [][WaiterNext]_vars

SpecLRCP == Init /\ [][LrcpNext]_vars

SpecFrames == Init /\ [][FrameNext]_vars

SpecTickets == Init /\ [][TicketNext]_vars

SpecSpeed == Init /\ [][SpeedNext]_vars

SpecHeartbeat == Init /\ [][HeartbeatNext]_vars

SpecChat == Init /\ [][ChatNext]_vars

SpecFiles == Init /\ [][StoreNext]_vars

SpecPest == Init /\ [][PestNext]_vars

SpecCipher == Init /\ [][CipherNext]_vars

SpecLines == Init /\ [][LinesNext]_vars

SpecBytes == Init /\ [][BytesNext]_vars

SpecLocks == Init /\ [][LockNext]_vars /\ LockFairness

====
